---- MODULE Spec2Model ----
\* Model of human-review: hunk review state (state.py), trust resolution
\* (patterns.py, review.py) and the approve / unapprove / status / stage
\* commands (cli.py).
\*
\* Strings that the code inspects character by character (pattern ids, trust
\* globs, paths, hashes, hunk keys, hunk specs) are sequences of one-character
\* strings. Strings the code only stores or compares are TLA+ strings.
EXTENDS Integers, Sequences, FiniteSets, TLC

VARIABLES
    files,   \* the ChangedFile list of the current diff (ReviewContext.files)
    config,  \* trust lists of the user-level and project-level settings.json
    disk,    \* state directory: file name -> JSON document, or Absent
    cache,   \* ReviewStateService._cache: comparison key -> ReviewState, or NoEntry
    current, \* the key in the current-comparison pointer file, or Nil
    now,     \* the clock read by _now_iso
    last,    \* the last operation run and what it returned
    pin,     \* patterns argument of patterns_match_trust_list
    tin,     \* trust_list argument of patterns_match_trust_list
    pout,    \* value returned by patterns_match_trust_list
    held,    \* a reference a caller obtained from load and still holds, or Nil
    fin,     \* arguments of the function applied by the function specifications
    fout     \* the value it returned, or Nil

vars == <<files, config, disk, cache, current, now, last, pin, tin, pout, held, fin, fout>>

\* Optional values: None is the empty sequence, a value x is <<x>>
Nil == <<>>
Some(x) == <<x>>

----------------------------------------------------------------------------
\* Sequence helpers

\* F applied to the value of x, which is evaluated once
Bind(x, F(_)) == CHOOSE r \in {F(v) : v \in {x}} : TRUE

\* x in list
InSeq(x, s) == \E i \in 1..Len(s) : s[i] = x

\* list.remove(x): drops the first occurrence
RemoveFirst(s, x) ==
    LET i == CHOOSE j \in 1..Len(s) : s[j] = x /\ \A m \in 1..(j - 1) : s[m] # x
    IN  SubSeq(s, 1, i - 1) \o SubSeq(s, i + 1, Len(s))

\* str.startswith
StartsWith(s, p) == Len(p) <= Len(s) /\ SubSeq(s, 1, Len(p)) = p

----------------------------------------------------------------------------
\* Trust pattern ids and trust globs

L_ia == <<"i", ":", "a">>       \* stands for imports:added
L_ir == <<"i", ":", "r">>       \* stands for imports:removed
L_fw == <<"f", ":", "w">>       \* stands for formatting:whitespace

G_iStar   == <<"i", ":", "*">>              \* imports:*
G_fStar   == <<"f", ":", "*">>              \* formatting:*
G_StarA   == <<"*", ":", "a">>              \* *:added
G_ia      == <<"i", ":", "a">>              \* imports:added
G_Q       == <<"?", ":", "w">>              \* ?:w
G_Class   == <<"[", "i", "f", "]", ":", "*">>   \* [if]:*
G_NotI    == <<"[", "!", "i", "]", ":", "*">>   \* [!i]:*
G_Open    == <<"[", "i", ":", "a">>             \* [i:a  (no closing bracket)

\* Index of the "]" closing the bracket expression opened at pat[j], or 0.
\* fnmatch.translate: a leading "!" and a "]" right after it are skipped
\* before the search for the closing bracket.
RECURSIVE ScanClose(_, _)
ScanClose(pat, j) ==
    IF j > Len(pat) THEN 0
    ELSE IF pat[j] = "]" THEN j
    ELSE ScanClose(pat, j + 1)

BracketEnd(pat, j) ==
    LET j1 == IF j + 1 <= Len(pat) /\ pat[j + 1] = "!" THEN j + 2 ELSE j + 1
        j2 == IF j1 <= Len(pat) /\ pat[j1] = "]" THEN j1 + 1 ELSE j1
    IN  ScanClose(pat, j2)

\* Does character c match the bracket expression pat[j..e]
BracketMatches(pat, j, e, c) ==
    LET stuff == SubSeq(pat, j + 1, e - 1)
        neg   == stuff[1] = "!"
        body  == IF neg THEN SubSeq(stuff, 2, Len(stuff)) ELSE stuff
    IN  IF neg THEN ~InSeq(c, body) ELSE InSeq(c, body)

\* fnmatch.fnmatch on POSIX (normcase is the identity): name[i..] against pat[j..]
RECURSIVE GlobFrom(_, _, _, _)
GlobFrom(name, pat, i, j) ==
    IF j > Len(pat) THEN i > Len(name)
    ELSE IF pat[j] = "*" THEN
        \/ GlobFrom(name, pat, i, j + 1)
        \/ (i <= Len(name) /\ GlobFrom(name, pat, i + 1, j))
    ELSE IF pat[j] = "?" THEN
        i <= Len(name) /\ GlobFrom(name, pat, i + 1, j + 1)
    ELSE IF pat[j] = "[" /\ BracketEnd(pat, j) # 0 THEN
        /\ i <= Len(name)
        /\ BracketMatches(pat, j, BracketEnd(pat, j), name[i])
        /\ GlobFrom(name, pat, i + 1, BracketEnd(pat, j) + 1)
    ELSE
        i <= Len(name) /\ name[i] = pat[j] /\ GlobFrom(name, pat, i + 1, j + 1)

pattern_matches_glob(pattern_id, glob_pattern) ==
    GlobFrom(pattern_id, glob_pattern, 1, 1)

\* any(pattern_matches_glob(pattern, trusted) for trusted in trust_list)
RECURSIVE AnyGlob(_, _, _)
AnyGlob(pattern, trust_list, i) ==
    IF i > Len(trust_list) THEN FALSE
    ELSE IF pattern_matches_glob(pattern, trust_list[i]) THEN TRUE
    ELSE AnyGlob(pattern, trust_list, i + 1)

\* the loop of patterns_match_trust_list collecting the untrusted patterns
RECURSIVE UntrustedLoop(_, _, _, _)
UntrustedLoop(patterns, trust_list, i, untrusted) ==
    IF i > Len(patterns) THEN untrusted
    ELSE UntrustedLoop(patterns, trust_list, i + 1,
            IF AnyGlob(patterns[i], trust_list, 1) THEN untrusted
            ELSE Append(untrusted, patterns[i]))

Mut_patterns_match_trust_list(patterns, trust_list) ==
    LET untrusted == UntrustedLoop(patterns, trust_list, 1, <<>>)
    IN  <<Len(untrusted) = 0, untrusted>>

\* returns <<all_trusted, untrusted_patterns>>
patterns_match_trust_list(patterns, trust_list) ==
    IF patterns = <<>> THEN <<FALSE, <<>>>>
    ELSE LET untrusted == UntrustedLoop(patterns, trust_list, 1, <<>>)
         IN  <<Len(untrusted) = 0, untrusted>>

----------------------------------------------------------------------------
\* JSON values as read by json.loads and written by json.dumps

JNull    == [t |-> "null"]
JStr(s)  == [t |-> "str", v |-> s]
JBool(b) == [t |-> "bool", v |-> b]
JInt(n)  == [t |-> "int", v |-> n]
JList(l) == [t |-> "list", v |-> l]

\* dict operations; a dict is a function from its keys
Has(d, k)    == k \in DOMAIN d
Put(d, k, x) == [f \in DOMAIN d \cup {k} |-> IF f = k THEN x ELSE d[f]]
Del(d, k)    == [f \in DOMAIN d \ {k} |-> d[f]]
EmptyDict    == [f \in {} |-> JNull]

\* Python truth value of a JSON value
Truthy(x) ==
    CASE x.t = "null" -> FALSE
      [] x.t = "bool" -> x.v
      [] x.t = "int"  -> x.v # 0
      [] x.t = "str"  -> x.v # ""
      [] x.t = "list" -> x.v # <<>>

----------------------------------------------------------------------------
\* Comparison keys (state.py: Comparison, make_comparison, _parse_comparison_key)

WT_SUFFIX == <<"+", "w", "o", "r", "k", "i", "n", "g", "-", "t", "r", "e", "e">>
WT_SUFFIX_LEN == 13

KeyWT == <<"m", ".", ".", "H">> \o WT_SUFFIX    \* m..H+working-tree
KeyBr == <<"m", ".", ".", "f">>                 \* m..f

EndsWith(s, suf) ==
    Len(suf) <= Len(s) /\ SubSeq(s, Len(s) - Len(suf) + 1, Len(s)) = suf

\* index of the first ".." in s, or 0
DotDot(s) ==
    LET hits == {i \in 1..(Len(s) - 1) : s[i] = "." /\ s[i + 1] = "."}
    IN  IF hits = {} THEN 0 ELSE CHOOSE i \in hits : \A j \in hits : i <= j

ValueError == [error |-> "ValueError"]

\* json.loads of a text that is not JSON
JSONDecodeError == [error |-> "JSONDecodeError"]

\* an exception of another class (TypeError, AttributeError) leaving the function
Raise(exc) == [raised |-> exc]
IsRaise(x) == "raised" \in DOMAIN x

\* a JSON value that is not an object, where the code expects a dict
IsTagged(x) == "t" \in DOMAIN x

\* the same at data["hunks"], whose keys are hunk keys: the value is kept
\* under the empty key, which is no hunk key
NotObject(x)   == (<<>> :> x)
IsNotObject(h) == <<>> \in DOMAIN h

_parse_comparison_key(comparison_key) ==
    LET working_tree == EndsWith(comparison_key, WT_SUFFIX)
        key_to_parse == IF working_tree
                        THEN SubSeq(comparison_key, 1, Len(comparison_key) - WT_SUFFIX_LEN)
                        ELSE comparison_key
        d == DotDot(key_to_parse)
    IN  IF d = 0 THEN ValueError
        ELSE [old |-> SubSeq(key_to_parse, 1, d - 1),
              new |-> SubSeq(key_to_parse, d + 2, Len(key_to_parse)),
              working_tree |-> working_tree,
              key |-> comparison_key]

SafeChars == {"a", "b", "c", "d", "e", "f", "h", "i", "k", "m", "n", "o", "p", "r",
              "t", "w", "g", "H", "M", "0", "1", "2", "3", ".", "_", "-"}

\* re.sub(r"[^a-zA-Z0-9._-]", "_", comparison_key)
sanitize_key(comparison_key) ==
    [i \in 1..Len(comparison_key) |->
        IF comparison_key[i] \in SafeChars THEN comparison_key[i] ELSE "_"]

get_file_path(comparison_key) ==
    sanitize_key(comparison_key) \o <<".", "j", "s", "o", "n">>

----------------------------------------------------------------------------
\* HunkState and ReviewState (state.py), and their JSON form

\* HunkState(): the field defaults
HunkState == [label |-> <<>>, reasoning |-> Nil, approved_via |-> Nil, count |-> Nil]

NoHunks == [k \in {} |-> HunkState]

\* HunkState.model_dump()
DumpHunk(h) ==
    [label        |-> JList(h.label),
     reasoning    |-> IF h.reasoning = Nil THEN JNull ELSE JStr(h.reasoning[1]),
     approved_via |-> IF h.approved_via = Nil THEN JNull ELSE JStr(h.approved_via[1]),
     count        |-> IF h.count = Nil THEN JNull ELSE JInt(h.count[1])]

\* ReviewState.model_dump() as written by json.dumps
model_dump(state) ==
    [comparison  |-> [old |-> state.comparison.old,
                      new |-> Some(state.comparison.new),
                      working_tree |-> state.comparison.working_tree,
                      key |-> state.comparison.key],
     hunks       |-> [k \in DOMAIN state.hunks |-> DumpHunk(state.hunks[k])],
     trust_label |-> state.trust_label,
     notes       |-> state.notes,
     created_at  |-> state.created_at,
     updated_at  |-> state.updated_at]

\* pydantic validation of one field of HunkState
\* a list element that is not a string: JSON null inside a label list, written
\* as the one-element sequence holding the word, which no text is (a text is
\* a sequence of single characters)
NullElem == <<"null">>
IsStrElem(x) == \A i \in 1..Len(x) : x[i] # "null"
\* label: list[str]
LabelOk(d)    ==
    Has(d, "label") =>
        /\ d["label"].t = "list"
        /\ \A i \in 1..Len(d["label"].v) : IsStrElem(d["label"].v[i])
ReasoningOk(d) == Has(d, "reasoning") => d["reasoning"].t \in {"null", "str"}
Mut_ApprovedViaOk(d) ==
    Has(d, "approved_via") => d["approved_via"].t \in {"null", "str"}
\* approved_via: Literal["review"] | None
ApprovedViaOk(d) ==
    Has(d, "approved_via") =>
        \/ d["approved_via"].t = "null"
        \/ d["approved_via"] = JStr("review")
CountOk(d)    == Has(d, "count") => d["count"].t \in {"null", "int"}

HunkValid(d) == LabelOk(d) /\ ReasoningOk(d) /\ ApprovedViaOk(d) /\ CountOk(d)

\* HunkState(**d) for a valid d; fields that are not declared are ignored
ParseHunk(d) ==
    [label        |-> IF Has(d, "label") THEN d["label"].v ELSE <<>>,
     reasoning    |-> IF Has(d, "reasoning") /\ d["reasoning"].t = "str"
                      THEN Some(d["reasoning"].v) ELSE Nil,
     approved_via |-> IF Has(d, "approved_via") /\ d["approved_via"].t = "str"
                      THEN Some(d["approved_via"].v) ELSE Nil,
     count        |-> IF Has(d, "count") /\ d["count"].t = "int"
                      THEN Some(d["count"].v) ELSE Nil]

\* ReviewState(**data): the validated object, or ValueError
ReviewState(data) ==
    IF \E k \in DOMAIN data["hunks"] : ~HunkValid(data["hunks"][k])
    THEN ValueError
    ELSE [comparison  |-> [old |-> data["comparison"].old,
                           new |-> data["comparison"].new[1],
                           working_tree |-> data["comparison"].working_tree,
                           key |-> data["comparison"].key],
          hunks       |-> [k \in DOMAIN data["hunks"] |-> ParseHunk(data["hunks"][k])],
          trust_label |-> IF Has(data, "trust_label") THEN data["trust_label"] ELSE <<>>,
          notes       |-> IF Has(data, "notes") THEN data["notes"] ELSE <<>>,
          created_at  |-> data["created_at"],
          updated_at  |-> data["updated_at"]]

----------------------------------------------------------------------------
\* ReviewStateService._migrate_state

IsStr(x, s) == x.t = "str" /\ x.v = s

\* "reason" -> "label"
MigReason(d) ==
    IF Has(d, "reason") THEN Put(Del(d, "reason"), "label", d["reason"]) ELSE d

Mut_MigReviewed(d) ==
    IF Has(d, "reviewed") /\ ~Has(d, "approved_via")
    THEN Put(Del(d, "reviewed"), "approved_via", JNull)
    ELSE d

\* reviewed: bool -> approved_via
MigReviewed(d) ==
    IF Has(d, "reviewed") /\ ~Has(d, "approved_via")
    THEN Put(Del(d, "reviewed"), "approved_via",
             IF Truthy(d["reviewed"]) THEN JStr("review") ELSE JNull)
    ELSE d

\* reviewed_by -> approved_via
MigReviewedBy(d) ==
    IF Has(d, "reviewed_by")
    THEN IF ~Has(d, "approved_via")
         THEN Put(Del(d, "reviewed_by"), "approved_via",
                  IF IsStr(d["reviewed_by"], "agent") THEN JStr("trust")
                  ELSE IF IsStr(d["reviewed_by"], "human") THEN JStr("review")
                  ELSE JNull)
         ELSE Del(d, "reviewed_by")
    ELSE d

\* free-form label -> reasoning
MigLabelText(d) ==
    IF Has(d, "label") /\ d["label"].t # "list"
    THEN Del(IF ~Has(d, "reasoning") THEN Put(d, "reasoning", d["label"]) ELSE d, "label")
    ELSE d

\* "trust" -> "label"
MigTrustField(d) ==
    IF Has(d, "trust") THEN Put(Del(d, "trust"), "label", d["trust"]) ELSE d

MigLabelDefault(d) ==
    IF ~Has(d, "label") THEN Put(d, "label", JList(<<>>)) ELSE d

\* "expected_count" -> "count"
MigCount(d) ==
    IF Has(d, "expected_count")
    THEN Put(Del(d, "expected_count"), "count", d["expected_count"])
    ELSE d

Mut_MigTrustApproval(d) == d

\* approved_via: "trust" -> None
MigTrustApproval(d) ==
    IF Has(d, "approved_via") /\ IsStr(d["approved_via"], "trust")
    THEN Put(d, "approved_via", JNull)
    ELSE d

MigDrop(d) == [f \in DOMAIN d \ {"suggested", "review", "trivial", "human"} |-> d[f]]

\* the body of the loop over hunks (state.py 199-245)
MigrateHunk(d) ==
    Bind(Bind(Bind(Bind(Bind(Bind(Bind(Bind(d,
        MigReviewed), MigReviewedBy), MigLabelText), MigTrustField),
        MigLabelDefault), MigCount), MigTrustApproval), MigDrop)

RangeOf(s) == {s[i] : i \in 1..Len(s)}

HunksOf(data) == IF Has(data, "hunks") THEN data["hunks"] ELSE [k \in {} |-> EmptyDict]

\* comparisonKey (string) -> comparison (dict); ValueError when the key is invalid
MigComparisonKey(data) ==
    IF Has(data, "comparisonKey") /\ ~Has(data, "comparison")
    THEN LET c == _parse_comparison_key(data["comparisonKey"])
         IN  IF c = ValueError THEN ValueError
             ELSE Put(Del(data, "comparisonKey"), "comparison",
                      [old |-> c.old, new |-> Some(c.new),
                       working_tree |-> c.working_tree, key |-> c.key])
    ELSE data

\* reviewedHunks / reviewed_hunks list -> hunks dict
MigReviewedHunks(data) ==
    IF Has(data, "reviewedHunks") \/ Has(data, "reviewed_hunks")
    THEN LET first  == IF Has(data, "reviewedHunks") THEN data["reviewedHunks"] ELSE <<>>
             d1     == Del(data, "reviewedHunks")
             second == first = <<>>
             old    == IF second
                       THEN IF Has(d1, "reviewed_hunks") THEN d1["reviewed_hunks"] ELSE <<>>
                       ELSE first
             d2     == IF second THEN Del(d1, "reviewed_hunks") ELSE d1
             hunks  == HunksOf(d2)
         IN  Put(d2, "hunks",
                 [k \in DOMAIN hunks \cup RangeOf(old) |->
                    IF k \in RangeOf(old)
                    THEN IF k \in DOMAIN hunks
                         THEN Put(hunks[k], "approved_via", JStr("review"))
                         ELSE [approved_via |-> JStr("review")]
                    ELSE hunks[k]])
    ELSE data

\* classifications dict -> label of the hunks
MigClassifications(data) ==
    IF Has(data, "classifications")
    THEN LET cls   == data["classifications"]
             d1    == Del(data, "classifications")
             hunks == HunksOf(d1)
         IN  Put(d1, "hunks",
                 [k \in DOMAIN hunks \cup DOMAIN cls |->
                    IF k \in DOMAIN cls
                    THEN Put(IF k \in DOMAIN hunks THEN hunks[k] ELSE EmptyDict, "label",
                             IF Has(cls[k], "reason") THEN cls[k]["reason"] ELSE JNull)
                    ELSE hunks[k]])
    ELSE data

\* the TypeError or AttributeError the code runs into when data["hunks"] or
\* one of its entries is not a dict (state.py 167-245), or Nil. Entries that
\* are JSON strings are not among the inputs.
HunksRaise(data) ==
    LET hunks == HunksOf(data)
        first == IF Has(data, "reviewedHunks") THEN data["reviewedHunks"] ELSE <<>>
        old_reviewed == IF first # <<>> THEN first
                        ELSE IF Has(data, "reviewed_hunks") THEN data["reviewed_hunks"]
                        ELSE <<>>
        classified == Has(data, "classifications") /\ DOMAIN data["classifications"] # {}
    IN  IF IsNotObject(hunks)
        THEN Some(IF old_reviewed # <<>> \/ classified THEN "TypeError" ELSE "AttributeError")
        ELSE IF \E k \in DOMAIN hunks : IsTagged(hunks[k]) THEN Some("TypeError")
        ELSE Nil

HEAD == <<"H", "E", "A", "D">>

\* timestamps and comparison defaults (state.py 247-260)
MigDefaults(data, comparison_key, t) ==
    LET d1 == IF ~Has(data, "created_at") THEN Put(data, "created_at", t) ELSE data
        d2 == IF ~Has(d1, "updated_at") THEN Put(d1, "updated_at", t) ELSE d1
        c  == _parse_comparison_key(comparison_key)
    IN  IF ~Has(d2, "comparison")
        THEN IF c = ValueError THEN ValueError
             ELSE Put(d2, "comparison", [old |-> c.old, new |-> Some(c.new),
                                         working_tree |-> c.working_tree, key |-> c.key])
        ELSE IF IsTagged(d2["comparison"]) THEN Raise("AttributeError")
        ELSE IF d2["comparison"].new = Nil
             THEN Put(d2, "comparison", [d2["comparison"] EXCEPT !.new = Some(HEAD)])
             ELSE d2

\* the loop over the hunks (state.py 195-245)
MigHunks(data) ==
    Bind(HunksOf(data), LAMBDA h :
        Put(data, "hunks", [k \in DOMAIN h |-> MigrateHunk(Bind(h[k], MigReason))]))

\* the migrated and validated ReviewState, or ValueError, or the exception
\* of another class that a value of the wrong JSON type runs into
_migrate_state(data, comparison_key, t) ==
    IF IsTagged(data)
    THEN Raise(IF data.t \in {"list", "str"} THEN "AttributeError" ELSE "TypeError")
    ELSE
    Bind(Bind(data, MigComparisonKey), LAMBDA d0 :
        IF d0 = ValueError THEN ValueError
        ELSE IF HunksRaise(d0) # Nil THEN Raise(HunksRaise(d0)[1])
        ELSE Bind(Bind(Bind(Bind(d0, MigReviewedHunks), MigClassifications), MigHunks),
                  LAMBDA d2 :
                    Bind(MigDefaults(d2, comparison_key, t), LAMBDA d3 :
                        IF d3 = ValueError \/ IsRaise(d3) THEN d3 ELSE ReviewState(d3))))

----------------------------------------------------------------------------
\* ReviewStateService: load, save, clear. A world w is the pair of the
\* service's cache and the state directory; every operation maps a world to
\* the world it leaves.

Absent  == [absent |-> TRUE]
NoEntry == [noentry |-> TRUE]

AllKeys   == {KeyWT, KeyBr}
FileNames == {get_file_path(k) : k \in AllKeys}

\* ReviewState(comparison=comparison, created_at=now, updated_at=now)
EmptyState(comparison_key, t) ==
    [comparison  |-> _parse_comparison_key(comparison_key),
     hunks       |-> NoHunks,
     trust_label |-> <<>>,
     notes       |-> <<>>,
     created_at  |-> t,
     updated_at  |-> t]

\* a file whose text is not JSON
NotJson == [notjson |-> TRUE]

json_loads(text) == IF text = NotJson THEN JSONDecodeError ELSE text

\* returns the state and the world (the cache may have gained the entry);
\* raised is the exception that leaves load, when one does
load(w, comparison_key, t) ==
    IF w.cache[comparison_key] # NoEntry
    THEN [state |-> w.cache[comparison_key], w |-> w, raised |-> Nil]
    ELSE LET file_path == get_file_path(comparison_key)
             exists    == w.disk[file_path] # Absent
         IN  Bind(IF exists
                  THEN Bind(json_loads(w.disk[file_path]), LAMBDA data :
                          IF data = JSONDecodeError THEN data
                          ELSE _migrate_state(data, comparison_key, t))
                  ELSE ValueError,
                  LAMBDA state :
                    IF exists /\ IsRaise(state)
                    THEN [raised |-> Some(state.raised), w |-> w]
                    ELSE IF exists /\ state # ValueError /\ state # JSONDecodeError
                    THEN [state |-> state, w |-> [w EXCEPT !.cache[comparison_key] = state],
                          raised |-> Nil]
                    ELSE [state |-> EmptyState(comparison_key, t), w |-> w, raised |-> Nil])

save(w, state, t) ==
    LET stamped == [state EXCEPT !.updated_at = t]
        key     == stamped.comparison.key
    IN  [cache |-> [w.cache EXCEPT ![key] = stamped],
         disk  |-> [w.disk EXCEPT ![get_file_path(key)] = model_dump(stamped)]]

Mut_clear(w, comparison_key) ==
    [cache |-> w.cache,
     disk  |-> [w.disk EXCEPT ![get_file_path(comparison_key)] = Absent]]

clear(w, comparison_key) ==
    [cache |-> [w.cache EXCEPT ![comparison_key] = NoEntry],
     disk  |-> [w.disk EXCEPT ![get_file_path(comparison_key)] = Absent]]

_get_or_create_hunk(hunks, hunk_key) ==
    IF hunk_key \in DOMAIN hunks THEN hunks ELSE Put(hunks, hunk_key, HunkState)

----------------------------------------------------------------------------
\* ReviewStateService: the mutating operations

Mut_approve_hunk(w, t, comparison_key, hunk_key, count) ==
    Bind(load(w, comparison_key, t), LAMBDA r :
    LET hunks == _get_or_create_hunk(r.state.hunks, hunk_key)
    IN  save(r.w, [r.state EXCEPT !.hunks =
                     [hunks EXCEPT ![hunk_key].approved_via = Some("review"),
                                   ![hunk_key].count = Some(count)]], t))

approve_hunk(w, t, comparison_key, hunk_key, count) ==
    Bind(load(w, comparison_key, t), LAMBDA r :
    LET hunks == _get_or_create_hunk(r.state.hunks, hunk_key)
    IN  IF hunks[hunk_key].approved_via = Nil
        THEN save(r.w, [r.state EXCEPT !.hunks =
                          [hunks EXCEPT ![hunk_key].approved_via = Some("review"),
                                        ![hunk_key].count = Some(count)]], t)
        ELSE r.w)

Mut_unapprove_hunk(w, t, comparison_key, hunk_key) ==
    Bind(load(w, comparison_key, t), LAMBDA r :
        IF hunk_key \in DOMAIN r.state.hunks /\ r.state.hunks[hunk_key].approved_via # Nil
        THEN save(r.w, [r.state EXCEPT !.hunks[hunk_key] = HunkState], t)
        ELSE r.w)

Mut_unapprove_hunk_count(w, t, comparison_key, hunk_key) ==
    Bind(load(w, comparison_key, t), LAMBDA r :
        IF hunk_key \in DOMAIN r.state.hunks /\ r.state.hunks[hunk_key].approved_via # Nil
        THEN save(r.w, [r.state EXCEPT !.hunks[hunk_key].approved_via = Nil,
                                       !.hunks[hunk_key].count = Nil], t)
        ELSE r.w)

unapprove_hunk(w, t, comparison_key, hunk_key) ==
    Bind(load(w, comparison_key, t), LAMBDA r :
        IF hunk_key \in DOMAIN r.state.hunks /\ r.state.hunks[hunk_key].approved_via # Nil
        THEN save(r.w, [r.state EXCEPT !.hunks[hunk_key].approved_via = Nil], t)
        ELSE r.w)

\* ReviewStateService.is_hunk_approved
svc_is_hunk_approved(w, t, comparison_key, hunk_key) ==
    Bind(load(w, comparison_key, t), LAMBDA r :
        IF hunk_key \in DOMAIN r.state.hunks
        THEN r.state.hunks[hunk_key].approved_via # Nil
        ELSE FALSE)

update_notes(w, t, comparison_key, notes) ==
    Bind(load(w, comparison_key, t), LAMBDA r :
        save(r.w, [r.state EXCEPT !.notes = <<notes>>], t))

\* notes are the list of the texts joined by blank lines
append_notes(w, t, comparison_key, text) ==
    Bind(load(w, comparison_key, t), LAMBDA r :
        save(r.w, [r.state EXCEPT !.notes = Append(r.state.notes, text)], t))

\* count is optional
set_hunk_classification(w, t, comparison_key, hunk_key, label, reasoning, count) ==
    Bind(load(w, comparison_key, t), LAMBDA r :
    LET hunks == _get_or_create_hunk(r.state.hunks, hunk_key)
        h     == [hunks[hunk_key] EXCEPT !.label = label, !.reasoning = Some(reasoning)]
    IN  save(r.w, [r.state EXCEPT !.hunks =
                     [hunks EXCEPT ![hunk_key] =
                        IF count # Nil THEN [h EXCEPT !.count = count] ELSE h]], t))

\* classifications: hunk key -> dict as parsed from JSON
set_hunk_classifications(w, t, comparison_key, classifications) ==
    Bind(load(w, comparison_key, t), LAMBDA r :
    LET old == r.state.hunks
        Cls(k) ==
            LET data == classifications[k]
                h    == IF k \in DOMAIN old THEN old[k] ELSE HunkState
            IN  [h EXCEPT
                   !.label = IF Has(data, "label") /\ data["label"].t = "list"
                             THEN data["label"].v
                             ELSE <<>>,
                   !.reasoning = IF Has(data, "reasoning")
                                 THEN IF data["reasoning"].t = "str"
                                      THEN Some(data["reasoning"].v) ELSE Some("")
                                 ELSE Some("")]
    IN  save(r.w, [r.state EXCEPT !.hunks =
                     [k \in DOMAIN old \cup DOMAIN classifications |->
                        IF k \in DOMAIN classifications THEN Cls(k) ELSE old[k]]], t))

set_label(w, t, comparison_key, hunk_key, label) ==
    Bind(load(w, comparison_key, t), LAMBDA r :
    LET hunks == _get_or_create_hunk(r.state.hunks, hunk_key)
    IN  save(r.w, [r.state EXCEPT !.hunks =
                     [hunks EXCEPT ![hunk_key].reasoning = Some(label)]], t))

\* labels: hunk key -> reasoning string
set_labels(w, t, comparison_key, labels) ==
    Bind(load(w, comparison_key, t), LAMBDA r :
    LET old == r.state.hunks
    IN  save(r.w, [r.state EXCEPT !.hunks =
                     [k \in DOMAIN old \cup DOMAIN labels |->
                        IF k \in DOMAIN labels
                        THEN [(IF k \in DOMAIN old THEN old[k] ELSE HunkState)
                                EXCEPT !.reasoning = Some(labels[k])]
                        ELSE old[k]]], t))

clear_classifications(w, t, comparison_key) ==
    Bind(load(w, comparison_key, t), LAMBDA r :
        save(r.w, [r.state EXCEPT !.hunks =
                     [k \in DOMAIN r.state.hunks |->
                        [r.state.hunks[k] EXCEPT !.label = <<>>, !.reasoning = Nil]]], t))

Mut_add_trust_label(w, t, comparison_key, pattern) ==
    Bind(load(w, comparison_key, t), LAMBDA r :
        save(r.w, [r.state EXCEPT
                     !.trust_label = Append(r.state.trust_label, pattern),
                     !.hunks = [k \in DOMAIN r.state.hunks |->
                                  IF patterns_match_trust_list(r.state.hunks[k].label,
                                                               <<pattern>>)[1]
                                  THEN [r.state.hunks[k] EXCEPT !.approved_via = Some("trust")]
                                  ELSE r.state.hunks[k]]], t))

add_trust_label(w, t, comparison_key, pattern) ==
    Bind(load(w, comparison_key, t), LAMBDA r :
        IF ~InSeq(pattern, r.state.trust_label)
        THEN save(r.w, [r.state EXCEPT !.trust_label = Append(r.state.trust_label, pattern)], t)
        ELSE r.w)

\* returns the world; the bool result is InSeq(pattern, trust_label) before the call
remove_trust_label(w, t, comparison_key, pattern) ==
    Bind(load(w, comparison_key, t), LAMBDA r :
        IF InSeq(pattern, r.state.trust_label)
        THEN save(r.w, [r.state EXCEPT
                          !.trust_label = RemoveFirst(r.state.trust_label, pattern)], t)
        ELSE r.w)

get_trust_labels(w, t, comparison_key) == load(w, comparison_key, t).state.trust_label

----------------------------------------------------------------------------
\* Trust resolution (review.py)

Mut_is_hunk_trusted(hunk, effective_trust) ==
    \E i \in 1..Len(hunk.label) :
        patterns_match_trust_list(<<hunk.label[i]>>, effective_trust)[1]

is_hunk_trusted(hunk, effective_trust) ==
    IF hunk.label = <<>> THEN FALSE
    ELSE patterns_match_trust_list(hunk.label, effective_trust)[1]

Mut_is_hunk_approved(hunk, effective_trust) ==
    IF hunk.approved_via = Some("review")
    THEN hunk.label # <<>>
    ELSE is_hunk_trusted(hunk, effective_trust)

is_hunk_approved(hunk, effective_trust) ==
    IF hunk.approved_via = Some("review") THEN TRUE
    ELSE is_hunk_trusted(hunk, effective_trust)

----------------------------------------------------------------------------
\* Hunk keys and hunk specs (hunks.py, review.py)

get_hunk_key(file_path, hunk_hash) == file_path \o <<":">> \o hunk_hash

Alnum == {"a", "b", "c", "d", "e", "f", "k", "p", "x", "M", "0", "1", "2", "3"}

\* index of the last c in s, or 0
LastIndex(s, c) ==
    LET hits == {i \in 1..Len(s) : s[i] = c}
    IN  IF hits = {} THEN 0 ELSE CHOOSE i \in hits : \A j \in hits : j <= i

\* str.split(",") keeping the parts that are not empty
RECURSIVE SplitComma(_, _, _)
SplitComma(s, i, cur) ==
    IF i > Len(s) THEN (IF cur = <<>> THEN <<>> ELSE <<cur>>)
    ELSE IF s[i] = ","
         THEN (IF cur = <<>> THEN <<>> ELSE <<cur>>) \o SplitComma(s, i + 1, <<>>)
         ELSE SplitComma(s, i + 1, Append(cur, s[i]))

\* returns [path, hashes]; hashes is Nil when the spec names no hashes
parse_hunk_spec(spec) ==
    LET c == LastIndex(spec, ":")
        hash_part == SubSeq(spec, c + 1, Len(spec))
    IN  IF c # 0 /\ hash_part # <<>>
           /\ \A i \in 1..Len(hash_part) : hash_part[i] \in Alnum \cup {","}
        THEN [path |-> SubSeq(spec, 1, c - 1), hashes |-> Some(SplitComma(hash_part, 1, <<>>))]
        ELSE [path |-> spec, hashes |-> Nil]

MAX_HASH_LEN == 40

is_bare_hash(spec) ==
    /\ \A i \in 1..Len(spec) : spec[i] \notin {":", "/", "\\", "."}
    /\ spec # <<>>
    /\ \A i \in 1..Len(spec) : spec[i] \in Alnum
    /\ Len(spec) <= MAX_HASH_LEN

\* every hunk of the diff, in file order then hunk order
RECURSIVE AllHunks(_)
AllHunks(fs) ==
    IF fs = <<>> THEN <<>> ELSE Head(fs).hunks \o AllHunks(Tail(fs))

\* returns [matches, err]: the (path, hash) pairs in diff order
resolve_bare_hash(spec, fs) ==
    LET hs == AllHunks(fs)
        IsMatch(h) == h.hash = spec \/ StartsWith(h.hash, spec)
        hit == SelectSeq(hs, IsMatch)
        matches == [i \in 1..Len(hit) |-> <<hit[i].file_path, hit[i].hash>>]
    IN  [matches |-> matches, err |-> Len(matches) = 0]

\* count_hunks_by_key(files)[key]
count_hunks_by_key(fs, key) ==
    Cardinality({i \in 1..Len(AllHunks(fs)) :
        get_hunk_key(AllHunks(fs)[i].file_path, AllHunks(fs)[i].hash) = key})

get_valid_hunk_keys(fs) ==
    {get_hunk_key(AllHunks(fs)[i].file_path, AllHunks(fs)[i].hash) : i \in 1..Len(AllHunks(fs))}

----------------------------------------------------------------------------
\* compute_review_status (review.py). A dict from reasoning to count is the
\* list of its (reasoning, count) items in insertion order.

NO_REASONING == "(no reasoning)"

\* hunk_state.reasoning or "(no reasoning)"
ReasoningOrDefault(h) ==
    IF h.reasoning = Nil \/ h.reasoning = Some("") THEN NO_REASONING ELSE h.reasoning[1]

\* d[r] = d.get(r, 0) + 1
Inc(d, r) ==
    IF \E i \in 1..Len(d) : d[i][1] = r
    THEN [i \in 1..Len(d) |-> IF d[i][1] = r THEN <<r, d[i][2] + 1>> ELSE d[i]]
    ELSE Append(d, <<r, 1>>)

\* sorted(d.items(), key=lambda x: x[1], reverse=True): stable, count descending
RECURSIVE SortedDesc(_)
SortedDesc(d) ==
    IF d = <<>> THEN <<>>
    ELSE LET rest == SortedDesc(SubSeq(d, 1, Len(d) - 1))
             x    == d[Len(d)]
             keep == {i \in 1..Len(rest) : rest[i][2] >= x[2]}
             n    == Cardinality(keep)
         IN  SubSeq(rest, 1, n) \o <<x>> \o SubSeq(rest, n + 1, Len(rest))

HunkStateOf(state, hunk) ==
    LET k == get_hunk_key(hunk.file_path, hunk.hash)
    IN  IF k \in DOMAIN state.hunks THEN Some(state.hunks[k]) ELSE Nil

RECURSIVE Mut_StatusLoop(_, _, _, _, _)
Mut_StatusLoop(hs, i, state, effective_trust, acc) ==
    IF i > Len(hs) THEN acc
    ELSE LET o == HunkStateOf(state, hs[i])
             a == [acc EXCEPT !.total_hunks = @ + 1]
         IN  Mut_StatusLoop(hs, i + 1, state, effective_trust,
               IF o # Nil /\ o[1].approved_via = Some("review")
               THEN [a EXCEPT !.approved_hunks = @ + 1,
                              !.reviewed = Inc(@, ReasoningOrDefault(o[1]))]
               ELSE IF o # Nil /\ is_hunk_trusted(o[1], effective_trust)
               THEN [a EXCEPT !.approved_hunks = @ + 1,
                              !.trusted = Inc(@, ReasoningOrDefault(o[1])),
                              !.unreviewed = Inc(@, ReasoningOrDefault(o[1]))]
               ELSE IF o # Nil /\ (o[1].label # <<>> \/ o[1].reasoning # Nil)
               THEN [a EXCEPT !.unreviewed = Inc(@, ReasoningOrDefault(o[1]))]
               ELSE [a EXCEPT !.unlabeled = @ + 1])

\* the loop over the hunks of the diff, from hunk i on
RECURSIVE StatusLoop(_, _, _, _, _)
StatusLoop(hs, i, state, effective_trust, acc) ==
    IF i > Len(hs) THEN acc
    ELSE LET o == HunkStateOf(state, hs[i])
             a == [acc EXCEPT !.total_hunks = @ + 1]
         IN  StatusLoop(hs, i + 1, state, effective_trust,
               IF o # Nil /\ o[1].approved_via = Some("review")
               THEN [a EXCEPT !.approved_hunks = @ + 1,
                              !.reviewed = Inc(@, ReasoningOrDefault(o[1]))]
               ELSE IF o # Nil /\ is_hunk_trusted(o[1], effective_trust)
               THEN [a EXCEPT !.approved_hunks = @ + 1,
                              !.trusted = Inc(@, ReasoningOrDefault(o[1]))]
               ELSE IF o # Nil /\ (o[1].label # <<>> \/ o[1].reasoning # Nil)
               THEN [a EXCEPT !.unreviewed = Inc(@, ReasoningOrDefault(o[1]))]
               ELSE [a EXCEPT !.unlabeled = @ + 1])

Statuses == {"added", "modified", "deleted", "renamed", "untracked"}

by_file_status(fs) ==
    [s \in {fs[i].status : i \in 1..Len(fs)} |->
        LET of == SelectSeq(fs, LAMBDA f : f.status = s)
        IN  [files |-> Len(of), hunks |-> Len(AllHunks(of))]]

compute_review_status(fs, state, comparison_key, effective_trust) ==
    LET acc == StatusLoop(AllHunks(fs), 1, state, effective_trust,
                   [total_hunks |-> 0, approved_hunks |-> 0, unlabeled |-> 0,
                    unreviewed |-> <<>>, trusted |-> <<>>, reviewed |-> <<>>])
    IN  [comparison_key      |-> comparison_key,
         total_files         |-> Len(fs),
         total_hunks         |-> acc.total_hunks,
         approved_hunks      |-> acc.approved_hunks,
         unlabeled_count     |-> acc.unlabeled,
         by_file_status      |-> by_file_status(fs),
         unreviewed_by_label |-> SortedDesc(acc.unreviewed),
         trusted_by_label    |-> SortedDesc(acc.trusted),
         reviewed_by_label   |-> SortedDesc(acc.reviewed)]

\* sum(c for _, c in bucket)
RECURSIVE BucketTotal(_)
BucketTotal(b) == IF b = <<>> THEN 0 ELSE Head(b)[2] + BucketTotal(Tail(b))

----------------------------------------------------------------------------
\* build_patch_for_approved_hunks (review.py). The patch is the list of the
\* hunks whose content it holds; a file whose `git diff` output shows no hunk
\* header contributes to the count but not to the patch.

RECURSIVE PatchLoop(_, _, _, _, _)
PatchLoop(fs, i, w, t, comparison_key) ==
    IF i > Len(fs) THEN [patch |-> <<>>, hunk_count |-> 0]
    ELSE LET staged == SelectSeq(fs[i].hunks, LAMBDA h :
                          svc_is_hunk_approved(w, t, comparison_key,
                                               get_hunk_key(h.file_path, h.hash)))
             rest   == PatchLoop(fs, i + 1, w, t, comparison_key)
         IN  [patch |-> (IF staged # <<>> /\ fs[i].has_header THEN staged ELSE <<>>)
                        \o rest.patch,
              hunk_count |-> Len(staged) + rest.hunk_count]

build_patch_for_approved_hunks(fs, w, t, comparison_key) ==
    PatchLoop(fs, 1, w, t, comparison_key)

----------------------------------------------------------------------------
\* Inputs of the model

MaxOps      == 3    \* operations in one behaviour
MaxNotes    == 1    \* texts appended to the notes
MaxPatterns == 2    \* length of the patterns argument
MaxTrust    == 2    \* length of the trust_list argument

\* hashes: 8 hex characters (hash_content)
H_a == <<"c", "a", "f", "e", "0", "0", "0", "1">>
H_b == <<"c", "a", "f", "e", "0", "0", "0", "2">>
H_c == <<"b", "e", "e", "f", "0", "0", "0", "3">>

P_a    == <<"a", ".", "p">>         \* a.p
P_b    == <<"b", ".", "p">>         \* b.p
P_mk   == <<"M", "k">>              \* Mk: a name without dot, like Makefile
P_cafe == <<"c", "a", "f", "e">>    \* cafe: a name that is a prefix of a hash

HK1 == get_hunk_key(P_a, H_a)
HK2 == get_hunk_key(P_a, H_b)

SvcHunkKeys == {HK1, HK2}
Counts      == {1, 2}
LabelLists  == {<<>>, <<L_ia>>, <<L_ia, L_fw>>}
SvcGlobs    == {G_iStar, G_fStar}

WellFormed == [label |-> JList(<<L_ia>>), reasoning |-> JStr("ws")]
ClsMaps ==
    {(HK1 :> WellFormed),
     (HK1 :> [label |-> JStr("i:a")] @@ HK2 :> [reasoning |-> JNull]),
     (HK1 :> [label |-> JList(<<NullElem>>), reasoning |-> JStr("ws")])}
LabelMaps == {(HK1 :> "x" @@ HK2 :> "x")}

ComparisonWT == [old |-> <<"m">>, new |-> Some(<<"H">>), working_tree |-> TRUE, key |-> KeyWT]

\* a file of the pullapprove-review era: reviewed_by and reason
LegacyReviewedBy ==
    [comparison |-> [ComparisonWT EXCEPT !.new = Nil],
     hunks      |-> (HK1 :> [suggested |-> JStr("agent"), reviewed_by |-> JStr("agent"),
                             reason |-> JStr("fmt")]
                  @@ HK2 :> [suggested |-> JStr("human"), reviewed_by |-> JStr("human"),
                             reason |-> JNull]),
     notes      |-> <<>>,
     created_at |-> 0,
     updated_at |-> 0]

\* a file of the time trust approval was stored: trust, expected_count
LegacyTrust ==
    [comparison  |-> ComparisonWT,
     hunks       |-> (HK1 :> [trust |-> JList(<<L_ia>>), reasoning |-> JStr("ws"),
                              approved_via |-> JStr("trust"), expected_count |-> JInt(1)]
                   @@ HK2 :> [label |-> JStr("text"), approved_via |-> JStr("review")]),
     trust_label |-> <<>>,
     notes       |-> <<>>,
     created_at  |-> 0,
     updated_at  |-> 0]

\* a file with a list of reviewed hunk keys and a classifications dict
LegacyLists ==
    [comparisonKey   |-> KeyWT,
     reviewedHunks   |-> <<HK1>>,
     classifications |-> (HK2 :> [reason |-> JStr("fmt")])]

LegacyDocs == {LegacyReviewedBy, LegacyTrust, LegacyLists}

NoDisk     == [f \in FileNames |-> Absent]
EmptyCache == [k \in AllKeys |-> NoEntry]
NoConfig   == [user |-> <<>>, project |-> <<>>]

W == [cache |-> cache, disk |-> disk]

\* what load returns now
St(comparison_key) == load(W, comparison_key, now).state

Last(op, hk, n, pat) == [op |-> op, hk |-> hk, n |-> n, pat |-> pat]

\* the operation leaves world w
Done(w, l) ==
    /\ cache' = w.cache
    /\ disk' = w.disk
    /\ now' = now + 1
    /\ last' = l
    /\ UNCHANGED <<files, config, current, pin, tin, pout, held, fin, fout>>

----------------------------------------------------------------------------
\* Spec: one service instance used through its methods on one comparison

Init ==
    /\ files = <<>>
    /\ config = NoConfig
    /\ disk \in {[NoDisk EXCEPT ![get_file_path(KeyWT)] = d] : d \in {Absent} \cup LegacyDocs}
    /\ cache = EmptyCache
    /\ current = Nil
    /\ now = 1
    /\ last = Last("init", <<>>, 0, <<>>)
    /\ pin = <<>> /\ tin = <<>> /\ pout = Nil
    /\ held = Nil /\ fin = Nil /\ fout = Nil

ApproveHunk ==
    \E hk \in SvcHunkKeys, c \in Counts :
        /\ now <= MaxOps
        /\ Done(approve_hunk(W, now, KeyWT, hk, c), Last("approve_hunk", hk, c, <<>>))

UnapproveHunk ==
    \E hk \in SvcHunkKeys :
        /\ now <= MaxOps
        /\ Done(unapprove_hunk(W, now, KeyWT, hk), Last("unapprove_hunk", hk, 0, <<>>))

SetHunkClassification ==
    \E hk \in SvcHunkKeys, l \in LabelLists, c \in {Nil, Some(2)} :
        /\ now <= MaxOps
        /\ Done(set_hunk_classification(W, now, KeyWT, hk, l, "ws", c),
                Last("set_hunk_classification", hk, 0, <<>>))

SetHunkClassifications ==
    \E m \in ClsMaps :
        /\ now <= MaxOps
        /\ Done(set_hunk_classifications(W, now, KeyWT, m),
                Last("set_hunk_classifications", <<>>, 0, <<>>))

SetLabel ==
    \E hk \in SvcHunkKeys :
        /\ now <= MaxOps
        /\ Done(set_label(W, now, KeyWT, hk, "x"), Last("set_label", hk, 0, <<>>))

SetLabels ==
    \E m \in LabelMaps :
        /\ now <= MaxOps
        /\ Done(set_labels(W, now, KeyWT, m), Last("set_labels", <<>>, 0, <<>>))

ClearClassifications ==
    /\ now <= MaxOps
    /\ Done(clear_classifications(W, now, KeyWT), Last("clear_classifications", <<>>, 0, <<>>))

UpdateNotes ==
    /\ now <= MaxOps
    /\ Done(update_notes(W, now, KeyWT, "n"), Last("update_notes", <<>>, 0, <<>>))

AppendNotes ==
    /\ now <= MaxOps
    /\ Len(St(KeyWT).notes) < MaxNotes
    /\ Done(append_notes(W, now, KeyWT, "n"), Last("append_notes", <<>>, 0, <<>>))

AddTrustLabel ==
    \E g \in SvcGlobs :
        /\ now <= MaxOps
        /\ Done(add_trust_label(W, now, KeyWT, g), Last("add_trust_label", <<>>, 0, g))

RemoveTrustLabel ==
    \E g \in SvcGlobs :
        /\ now <= MaxOps
        /\ Done(remove_trust_label(W, now, KeyWT, g), Last("remove_trust_label", <<>>, 0, g))

Clear ==
    /\ now <= MaxOps
    /\ Done(clear(W, KeyWT), Last("clear", <<>>, 0, <<>>))

\* the process ends and the next one starts with an empty cache
NewProcess ==
    /\ now <= MaxOps
    /\ cache # EmptyCache
    /\ Done([cache |-> EmptyCache, disk |-> disk], Last("new_process", <<>>, 0, <<>>))

Next ==
    \/ ApproveHunk \/ UnapproveHunk
    \/ SetHunkClassification \/ SetHunkClassifications \/ SetLabel \/ SetLabels
    \/ ClearClassifications \/ UpdateNotes \/ AppendNotes
    \/ AddTrustLabel \/ RemoveTrustLabel \/ Clear \/ NewProcess

Spec == Init /\ [][Next]_vars

----------------------------------------------------------------------------
\* SpecPatterns: patterns_match_trust_list applied to bounded inputs

PatternIds == {L_ia, L_ir, L_fw}
AllGlobs   == {G_iStar, G_fStar, G_StarA, G_ia, G_Q, G_Class, G_NotI, G_Open}

SeqsUpTo(S, n) == UNION {[1..m -> S] : m \in 0..n}

InitPatterns ==
    /\ files = <<>>
    /\ config = NoConfig
    /\ disk = NoDisk
    /\ cache = EmptyCache
    /\ current = Nil
    /\ now = 1
    /\ last = Last("init", <<>>, 0, <<>>)
    /\ pin \in SeqsUpTo(PatternIds, MaxPatterns)
    /\ tin \in SeqsUpTo(AllGlobs, MaxTrust)
    /\ pout = Nil
    /\ held = Nil /\ fin = Nil /\ fout = Nil

PatternsMatchTrustList ==
    /\ pout = Nil
    /\ pout' = Some(patterns_match_trust_list(pin, tin))
    /\ UNCHANGED <<files, config, disk, cache, current, now, last, pin, tin, held, fin, fout>>

NextPatterns == PatternsMatchTrustList

SpecPatterns == InitPatterns /\ [][NextPatterns]_vars

----------------------------------------------------------------------------
\* The commands of cli.py. Every command runs in a process of its own: it
\* starts from an empty cache and returns [w, exit, out].

EXIT_SUCCESS == 0
EXIT_USER_ERROR == 1
EXIT_OPERATIONAL_ERROR == 2

Result(w, exit, out) == [w |-> w, exit |-> exit, out |-> out]

\* get_current_comparison: the comparison of the current review (Nil when no
\* review is in progress) and the world after the load
get_current_comparison(w, t) ==
    IF current # Nil
    THEN Bind(load(w, current[1], t), LAMBDA r :
            [comparison |-> Some(r.state.comparison), w |-> r.w])
    ELSE [comparison |-> Nil, w |-> w]

\* approve_hunk for items[i..], each item a [key, count]
RECURSIVE ApproveEach(_, _, _, _, _)
ApproveEach(w, t, comparison_key, items, i) ==
    IF i > Len(items) THEN w
    ELSE Bind(approve_hunk(w, t, comparison_key, items[i].key, items[i].count),
              LAMBDA v : ApproveEach(v, t, comparison_key, items, i + 1))

RECURSIVE UnapproveEach(_, _, _, _, _)
UnapproveEach(w, t, comparison_key, keys, i) ==
    IF i > Len(keys) THEN w
    ELSE Bind(unapprove_hunk(w, t, comparison_key, keys[i]),
              LAMBDA v : UnapproveEach(v, t, comparison_key, keys, i + 1))

\* [f for f in files if f.path == path or f.path.startswith(path + "/")]
MatchingFiles(fs, path) ==
    SelectSeq(fs, LAMBDA f : f.path = path \/ StartsWith(f.path, path \o <<"/">>))

\* the hunks of matching_files selected by hashes
SelectedHunks(fs, p) ==
    SelectSeq(AllHunks(MatchingFiles(fs, p.path)),
              LAMBDA h : p.hashes = Nil \/ InSeq(h.hash, p.hashes[1]))

\* approve, for one SPEC
approve(w0, t, fs, spec) ==
    Bind(get_current_comparison(w0, t), LAMBDA ctx :
    LET c == ctx.comparison
        w == ctx.w
    IN  IF c = Nil THEN Result(w0, EXIT_USER_ERROR, "no review in progress")
        ELSE IF is_bare_hash(spec)
        THEN LET r == resolve_bare_hash(spec, fs)
                 items == [i \in 1..Len(r.matches) |->
                            [key   |-> get_hunk_key(r.matches[i][1], r.matches[i][2]),
                             count |-> Cardinality({j \in 1..Len(r.matches) :
                                                      r.matches[j] = r.matches[i]})]]
             IN  IF r.err THEN Result(w, EXIT_USER_ERROR, "hash not found")
                 ELSE Result(ApproveEach(w, t, c[1].key, items, 1), EXIT_SUCCESS, "approved")
        ELSE LET p  == parse_hunk_spec(spec)
                 hs == SelectedHunks(fs, p)
                 items == [i \in 1..Len(hs) |->
                            [key   |-> get_hunk_key(hs[i].file_path, hs[i].hash),
                             count |-> count_hunks_by_key(fs,
                                          get_hunk_key(hs[i].file_path, hs[i].hash))]]
             IN  IF MatchingFiles(fs, p.path) = <<>>
                 THEN Result(w, EXIT_USER_ERROR, "no changes found")
                 ELSE Result(ApproveEach(w, t, c[1].key, items, 1), EXIT_SUCCESS, "approved"))

\* unapprove, for one SPEC
unapprove(w0, t, fs, spec) ==
    Bind(get_current_comparison(w0, t), LAMBDA ctx :
    LET c == ctx.comparison
        w == ctx.w
    IN  IF c = Nil THEN Result(w0, EXIT_USER_ERROR, "no review in progress")
        ELSE IF is_bare_hash(spec)
        THEN LET r == resolve_bare_hash(spec, fs)
                 keys == [i \in 1..Len(r.matches) |->
                            get_hunk_key(r.matches[i][1], r.matches[i][2])]
             IN  IF r.err THEN Result(w, EXIT_USER_ERROR, "hash not found")
                 ELSE Result(UnapproveEach(w, t, c[1].key, keys, 1), EXIT_SUCCESS, "unapproved")
        ELSE LET p  == parse_hunk_spec(spec)
                 hs == SelectedHunks(fs, p)
                 keys == [i \in 1..Len(hs) |-> get_hunk_key(hs[i].file_path, hs[i].hash)]
             IN  IF MatchingFiles(fs, p.path) = <<>>
                 THEN Result(w, EXIT_USER_ERROR, "no changes found")
                 ELSE Result(UnapproveEach(w, t, c[1].key, keys, 1), EXIT_SUCCESS, "unapproved"))

\* trust PATTERN (without --preview)
trust(w0, t, fs, pattern) ==
    Bind(get_current_comparison(w0, t), LAMBDA ctx :
    LET c == ctx.comparison
        w == ctx.w
    IN  IF c = Nil THEN Result(w0, EXIT_USER_ERROR, "no review in progress")
        ELSE IF InSeq(pattern, load(w, c[1].key, t).state.trust_label)
        THEN Result(w, EXIT_SUCCESS, "already trusted")
        ELSE Result(add_trust_label(w, t, c[1].key, pattern), EXIT_SUCCESS, "added"))

\* untrust PATTERN
untrust(w0, t, fs, pattern) ==
    Bind(get_current_comparison(w0, t), LAMBDA ctx :
    LET c == ctx.comparison
        w == ctx.w
    IN  IF c = Nil THEN Result(w0, EXIT_USER_ERROR, "no review in progress")
        ELSE IF ~InSeq(pattern, load(w, c[1].key, t).state.trust_label)
        THEN Result(w, EXIT_SUCCESS, "not trusted")
        ELSE Result(remove_trust_label(w, t, c[1].key, pattern), EXIT_SUCCESS, "removed"))

\* the classifications that label --stdin builds from a JSON object whose
\* values are strings (a tagged value) or objects
StdinClassifications(data) ==
    [k \in DOMAIN data |->
        LET value == data[k]
            label == IF Has(value, "label") THEN value["label"] ELSE JList(<<>>)
            reasoning == IF Has(value, "reasoning") THEN value["reasoning"]
                         ELSE IF Has(value, "reason") THEN value["reason"]
                         ELSE JStr("")
        IN  IF Has(value, "t")
            THEN [label |-> JList(<<>>), reasoning |-> value]
            ELSE [label     |-> IF label.t = "list" THEN label ELSE JList(<<>>),
                  reasoning |-> IF reasoning.t = "str" THEN reasoning ELSE JStr("")]]

\* label --stdin
label_stdin(w0, t, fs, data) ==
    Bind(get_current_comparison(w0, t), LAMBDA ctx :
    LET c == ctx.comparison
        w == ctx.w
    IN  IF c = Nil THEN Result(w0, EXIT_USER_ERROR, "no review in progress")
        ELSE Result(set_hunk_classifications(w, t, c[1].key, StdinClassifications(data)),
                    EXIT_SUCCESS, "labeled"))

\* the trust list status and diff resolve approval with
StatusTrust(state) == state.trust_label

\* status --json: out is the ReviewStatus
status(w0, t, fs) ==
    Bind(get_current_comparison(w0, t), LAMBDA ctx :
    LET c == ctx.comparison
        w == ctx.w
    IN  IF c = Nil THEN Result(w0, EXIT_USER_ERROR, "no review in progress")
        ELSE LET state == load(w, c[1].key, t).state
             IN  Result(w, EXIT_SUCCESS,
                        compute_review_status(fs, state, c[1].key, StatusTrust(state))))

\* stage: out is the patch and the number of hunks staged
Mut_stage(w0, t, fs) ==
    Bind(get_current_comparison(w0, t), LAMBDA ctx :
    LET c == ctx.comparison
        w == ctx.w
    IN  IF c = Nil THEN Result(w0, EXIT_USER_ERROR, "no review in progress")
        ELSE Result(w, EXIT_SUCCESS, build_patch_for_approved_hunks(fs, w, t, c[1].key)))

stage(w0, t, fs) ==
    Bind(get_current_comparison(w0, t), LAMBDA ctx :
    LET c == ctx.comparison
        w == ctx.w
    IN  IF c = Nil THEN Result(w0, EXIT_USER_ERROR, "no review in progress")
        ELSE IF ~c[1].working_tree
        THEN Result(w, EXIT_OPERATIONAL_ERROR, "stage only works for working tree reviews")
        ELSE Result(w, EXIT_SUCCESS, build_patch_for_approved_hunks(fs, w, t, c[1].key)))

----------------------------------------------------------------------------
\* SpecCli: a review of the working tree is in progress and the commands run
\* one after the other, each in a process of its own, on an unchanging diff.

MaxCmds == 3    \* commands in one behaviour

P_ax == <<"a", ".", "p", "/", "x">>     \* a.p/x: a file under a directory a.p

Hunk(file_path, hash) == [file_path |-> file_path, hash |-> hash]

\* a ChangedFile; has_header says whether `git diff -- path` shows a hunk header
\* (it shows nothing for an untracked file)
ChangedFile(path, st, hashes) ==
    [path       |-> path,
     status     |-> st,
     hunks      |-> [i \in 1..Len(hashes) |-> Hunk(path, hashes[i])],
     has_header |-> st # "untracked"]

\* a.p with three hunks, b.p with a hunk of the same content as one of a.p
DiffPlain == <<ChangedFile(P_a, "modified", <<H_a, H_b, H_c>>),
               ChangedFile(P_b, "modified", <<H_a>>)>>
\* a.p with two hunks of identical content, and an untracked Mk
DiffTwin  == <<ChangedFile(P_a, "modified", <<H_a, H_a, H_b>>),
               ChangedFile(P_mk, "untracked", <<H_c>>)>>
\* a file named cafe, and a.p with a hunk whose hash starts with cafe
DiffCafe  == <<ChangedFile(P_a, "modified", <<H_a>>),
               ChangedFile(P_cafe, "added", <<H_c>>)>>
\* the file a.p became a directory
DiffDir   == <<ChangedFile(P_a, "deleted", <<H_a>>),
               ChangedFile(P_ax, "untracked", <<H_a>>)>>

Diffs == {DiffPlain, DiffTwin, DiffCafe, DiffDir}

Configs == {NoConfig, [user |-> <<G_fStar>>, project |-> <<G_iStar>>]}

merge_configs(user_trust, project_trust) ==
    IF project_trust # <<>> THEN project_trust ELSE user_trust

CliSpecs == {P_a, P_mk, P_cafe, P_a \o <<":">> \o H_a, H_c}

LabelAll ==
    (get_hunk_key(P_a, H_a) :> [label |-> JList(<<L_ia>>), reasoning |-> JStr("ws")]
     @@ get_hunk_key(P_a, H_b) :> [label |-> JList(<<L_ia, L_fw>>), reasoning |-> JStr("ws")]
     @@ get_hunk_key(P_a, H_c) :> [label |-> JList(<<L_ia>>), reasoning |-> JStr("fmt")])

CliLabelData ==
    {LabelAll,
     (get_hunk_key(P_a, H_a) :> [label |-> JList(<<L_ia>>), reasoning |-> JStr("ws")]
      @@ get_hunk_key(P_a, H_b) :> JStr("fmt")
      @@ get_hunk_key(P_b, H_a) :> [label |-> JList(<<L_fw>>), reason |-> JStr("ws")])}

\* the state file the next command will read
CliState == load([cache |-> EmptyCache, disk |-> disk], KeyWT, now).state

\* the command op with argument arg ran from state pre and returned r
CliDone(op, arg, r) ==
    /\ disk' = r.w.disk
    /\ cache' = EmptyCache
    /\ now' = now + 1
    /\ last' = [op |-> op, arg |-> arg, exit |-> r.exit, out |-> r.out, pre |-> CliState]
    /\ UNCHANGED <<files, config, current, pin, tin, pout, held, fin, fout>>

Fresh == [cache |-> EmptyCache, disk |-> disk]

\* the state directory after `start m`
Started == save([cache |-> EmptyCache, disk |-> NoDisk], EmptyState(KeyWT, 0), 0).disk

\* and after `label --stdin` and `approve a.p` on the diff fs
Reviewed(fs) ==
    approve([cache |-> EmptyCache,
             disk  |-> label_stdin([cache |-> EmptyCache, disk |-> Started],
                                   0, fs, LabelAll).w.disk],
            0, fs, P_a).w.disk

InitCli ==
    /\ current = Some(KeyWT)
    /\ files \in Diffs
    /\ config \in Configs
    /\ disk \in {Started, Reviewed(files)}
    /\ cache = EmptyCache
    /\ now = 1
    /\ last = [op |-> "init", arg |-> <<>>, exit |-> EXIT_SUCCESS, out |-> "",
               pre |-> EmptyState(KeyWT, 0)]
    /\ pin = <<>> /\ tin = <<>> /\ pout = Nil
    /\ held = Nil /\ fin = Nil /\ fout = Nil

CmdLabelStdin ==
    \E data \in CliLabelData :
        /\ now <= MaxCmds
        /\ CliDone("label", data, label_stdin(Fresh, now, files, data))

CmdTrust ==
    \E g \in SvcGlobs :
        /\ now <= MaxCmds
        /\ CliDone("trust", g, trust(Fresh, now, files, g))

CmdUntrust ==
    \E g \in SvcGlobs :
        /\ now <= MaxCmds
        /\ CliDone("untrust", g, untrust(Fresh, now, files, g))

CmdApprove ==
    \E spec \in CliSpecs :
        /\ now <= MaxCmds
        /\ CliDone("approve", spec, approve(Fresh, now, files, spec))

CmdUnapprove ==
    \E spec \in CliSpecs :
        /\ now <= MaxCmds
        /\ CliDone("unapprove", spec, unapprove(Fresh, now, files, spec))

CmdStatus ==
    /\ now <= MaxCmds
    /\ CliDone("status", <<>>, status(Fresh, now, files))

CmdStage ==
    /\ now <= MaxCmds
    /\ CliDone("stage", <<>>, stage(Fresh, now, files))

NextCli ==
    \/ CmdLabelStdin \/ CmdTrust \/ CmdUntrust
    \/ CmdApprove \/ CmdUnapprove \/ CmdStatus \/ CmdStage

SpecCli == InitCli /\ [][NextCli]_vars

----------------------------------------------------------------------------
\* Properties of the service (Spec) and of patterns_match_trust_list
\* (SpecPatterns)

\* every label of labels is matched by some glob of trust_list
Covers(trust_list, labels) ==
    \A i \in 1..Len(labels) :
        \E j \in 1..Len(trust_list) : pattern_matches_glob(labels[i], trust_list[j])

TrustLists == SeqsUpTo(AllGlobs, 1)

ReviewApproved(state, k) ==
    k \in DOMAIN state.hunks /\ state.hunks[k].approved_via = Some("review")

\* C1: add_trust_label and remove_trust_label leave every entry of state.hunks
\* as it was; after add_trust_label the glob is in the trust list and a hunk
\* with labels and no stored approval whose labels the list now covers is
\* approved; after remove_trust_label the glob is gone and such a hunk with
\* an uncovered label is not approved.
C1_DynamicTrust ==
    [][last'.op \in {"add_trust_label", "remove_trust_label"} =>
        LET before == St(KeyWT)
            after  == St(KeyWT)'
            globs  == after.trust_label
        IN  /\ after.hunks = before.hunks
            /\ last'.op = "add_trust_label" => InSeq(last'.pat, globs)
            /\ last'.op = "remove_trust_label" =>
                 globs = SelectSeq(before.trust_label, LAMBDA g : g # last'.pat)
            /\ \A k \in DOMAIN after.hunks :
                 LET h == after.hunks[k]
                 IN  (h.label # <<>> /\ h.approved_via = Nil) =>
                        (is_hunk_approved(h, globs) <=> Covers(globs, h.label))]_vars

\* remove_trust_label took the glob away and a labelled hunk without stored
\* approval lost its approval with it
C1_Witness ==
    /\ last.op = "remove_trust_label"
    /\ St(KeyWT).updated_at = now - 1
    /\ \E k \in DOMAIN St(KeyWT).hunks :
         LET h == St(KeyWT).hunks[k]
         IN  /\ h.label # <<>> /\ h.approved_via = Nil
             /\ ~is_hunk_approved(h, St(KeyWT).trust_label)
             /\ is_hunk_approved(h, Append(St(KeyWT).trust_label, last.pat))

C3_ApproveIdempotent ==
    /\ \A hk \in SvcHunkKeys, c1 \in Counts, c2 \in Counts :
         LET once  == approve_hunk(W, now, KeyWT, hk, c1)
             twice == approve_hunk(once, now + 1, KeyWT, hk, c2)
             h     == load(twice, KeyWT, now + 2).state.hunks[hk]
         IN  /\ twice = once
             /\ h.approved_via = Some("review")
             /\ ~ReviewApproved(St(KeyWT), hk) => h.count = Some(c1)
    /\ last.op = "approve_hunk" => ReviewApproved(St(KeyWT), last.hk)

\* the last approve_hunk came with another count and the stored count stayed
C3_Witness ==
    /\ last.op = "approve_hunk"
    /\ St(KeyWT).hunks[last.hk].count \in {Some(c) : c \in Counts \ {last.n}}

DocOk(doc) ==
    doc # Absent =>
        \A k \in DOMAIN doc.hunks : doc.hunks[k]["approved_via"] \in {JNull, JStr("review")}

\* C4: every state load returns, every cached state and every file an
\* operation writes has approved_via "review" or absent on each hunk, also
\* when the file read recorded agent or trust approval.
C4_TrustNeverStored ==
    /\ [](\A key \in AllKeys :
            /\ \A k \in DOMAIN St(key).hunks :
                 St(key).hunks[k].approved_via \in {Nil, Some("review")}
            /\ cache[key] # NoEntry =>
                 \A k \in DOMAIN cache[key].hunks :
                    cache[key].hunks[k].approved_via \in {Nil, Some("review")})
    /\ [][\A f \in FileNames : disk'[f] # disk[f] => DocOk(disk'[f])]_vars

\* the file recorded trust approval; the state written back holds the hunk
\* with its labels and no approval, and the trust list approves it
C4_Witness ==
    /\ last.op = "add_trust_label"
    /\ St(KeyWT).updated_at = now - 1
    /\ HK1 \in DOMAIN St(KeyWT).hunks
    /\ St(KeyWT).hunks[HK1].approved_via = Nil
    /\ disk[get_file_path(KeyWT)].hunks[HK1]["approved_via"] = JNull
    /\ is_hunk_approved(St(KeyWT).hunks[HK1], St(KeyWT).trust_label)

\* C5: patterns_match_trust_list returns (TRUE, <<>>) exactly when patterns is
\* not empty and every pattern matches a glob of trust_list; otherwise FALSE
\* and the patterns that match no glob, in input order; (FALSE, <<>>) for the
\* empty pattern list.
C5_PatternsMatchTrustList ==
    pout # Nil =>
        LET matched(p) == \E j \in 1..Len(tin) : pattern_matches_glob(p, tin[j])
            all == pin # <<>> /\ \A i \in 1..Len(pin) : matched(pin[i])
        IN  /\ (pout[1] = <<TRUE, <<>>>>) <=> all
            /\ ~all => pout[1] = <<FALSE, SelectSeq(pin, LAMBDA p : ~matched(p))>>
            /\ pin = <<>> => pout[1] = <<FALSE, <<>>>>

\* one pattern of two matches no glob
C5_Witness ==
    /\ pout # Nil
    /\ Len(pin) = 2 /\ Len(tin) = 2
    /\ pout[1][1] = FALSE
    /\ pout[1][2] = <<pin[2]>>

\* the empty pattern list against a trust list that is not empty
C5_WitnessEmpty ==
    pout # Nil /\ pin = <<>> /\ tin # <<>> /\ pout[1] = <<FALSE, <<>>>>

----------------------------------------------------------------------------
\* Properties of the commands (SpecCli)

\* the bucket a hunk of the diff belongs to under trust list tl
HunkClass(state, hunk, tl) ==
    LET o == HunkStateOf(state, hunk)
    IN  IF o = Nil THEN "unlabeled"
        ELSE IF o[1].approved_via = Some("review") THEN "reviewed"
        ELSE IF o[1].label # <<>> /\ Covers(tl, o[1].label) THEN "trusted"
        ELSE IF o[1].label # <<>> \/ o[1].reasoning # Nil THEN "unreviewed"
        ELSE "unlabeled"

\* the bucket of every hunk of diff fs, by position
Classes(fs, state, tl) ==
    [i \in 1..Len(AllHunks(fs)) |-> HunkClass(state, AllHunks(fs)[i], tl)]

\* the reasoning every hunk of diff fs is counted under, by position
Reasonings(fs, state) ==
    [i \in 1..Len(AllHunks(fs)) |->
        IF HunkStateOf(state, AllHunks(fs)[i]) = Nil THEN NO_REASONING
        ELSE ReasoningOrDefault(HunkStateOf(state, AllHunks(fs)[i])[1])]

\* the count a bucket shows for reasoning r
BucketCount(b, r) == BucketTotal(SelectSeq(b, LAMBDA e : e[1] = r))

ReasoningsOf(state) ==
    {ReasoningOrDefault(state.hunks[k]) : k \in DOMAIN state.hunks} \cup {NO_REASONING}

\* the hunks of the diff with labels and no stored approval that tl does not
\* cover and tl2 covers
NewlyTrusted(fs, state, tl, tl2) ==
    {i \in 1..Len(AllHunks(fs)) :
        LET o == HunkStateOf(state, AllHunks(fs)[i])
        IN  /\ o # Nil /\ o[1].label # <<>> /\ o[1].approved_via = Nil
            /\ ~Covers(tl, o[1].label) /\ Covers(tl2, o[1].label)}

StatusOf(state) == compute_review_status(files, state, KeyWT, StatusTrust(state))

\* C6: under every trust list, compute_review_status counts each hunk of the
\* diff in exactly one place: a hunk with labels and no stored approval in
\* the unreviewed bucket under its reasoning while some label is not covered
\* and in the trusted bucket under the same reasoning, and in
\* approved_hunks, once all are covered; `trust` raises approved_hunks by
\* one for each hunk it newly covers and stores no approval.
C6_TrustMovesBucket ==
    /\ \A tl \in {CliState.trust_label} \cup {Append(CliState.trust_label, g) : g \in SvcGlobs} :
         LET S   == compute_review_status(files, CliState, KeyWT, tl)
             cls == Classes(files, CliState, tl)
             rsn == Reasonings(files, CliState)
             N(c) == Cardinality({i \in DOMAIN cls : cls[i] = c})
             NU(c, r) == Cardinality({i \in DOMAIN cls : cls[i] = c /\ rsn[i] = r})
         IN  /\ \A r \in ReasoningsOf(CliState) :
                  /\ BucketCount(S.unreviewed_by_label, r) = NU("unreviewed", r)
                  /\ BucketCount(S.trusted_by_label, r) = NU("trusted", r)
                  /\ BucketCount(S.reviewed_by_label, r) = NU("reviewed", r)
             /\ S.unlabeled_count = N("unlabeled")
             /\ S.approved_hunks = N("trusted") + N("reviewed")
             /\ S.total_hunks = BucketTotal(S.unreviewed_by_label) + BucketTotal(S.trusted_by_label)
                                  + BucketTotal(S.reviewed_by_label) + S.unlabeled_count
    /\ last.op = "trust" =>
         /\ CliState.hunks = last.pre.hunks
         /\ StatusOf(CliState).approved_hunks
              = StatusOf(last.pre).approved_hunks
                  + Cardinality(NewlyTrusted(files, CliState, last.pre.trust_label,
                                             CliState.trust_label))

\* `trust` covered the labels of one hunk: it left the unreviewed bucket
\* for the trusted bucket, under the same reasoning
C6_Witness ==
    /\ last.op = "trust"
    /\ Cardinality(NewlyTrusted(files, CliState, last.pre.trust_label,
                                CliState.trust_label)) = 1
    /\ StatusOf(last.pre).unreviewed_by_label = <<<<"ws", 1>>>>
    /\ StatusOf(last.pre).trusted_by_label = <<>>
    /\ StatusOf(CliState).trusted_by_label = <<<<"ws", 1>>>>
    /\ StatusOf(CliState).approved_hunks = StatusOf(last.pre).approved_hunks + 1

\* the hunks of the diff that satisfy the approval predicate, in diff order
ApprovedHunks(fs, state, tl) ==
    SelectSeq(AllHunks(fs), LAMBDA h :
        /\ HunkStateOf(state, h) # Nil
        /\ is_hunk_approved(HunkStateOf(state, h)[1], tl))

\* C7: the patch of `stage` holds exactly the hunks of the diff that satisfy
\* the approval predicate (review, or all labels trusted), and the number
\* staged is the approved_hunks of status.
C7_StageIsApproved ==
    (last.op = "stage" /\ last.exit = EXIT_SUCCESS) =>
        /\ last.out.patch = ApprovedHunks(files, CliState, StatusTrust(CliState))
        /\ last.out.hunk_count = StatusOf(CliState).approved_hunks

\* the trust list of the user or project configuration
ConfigTrust == merge_configs(config.user, config.project)

\* C8: status decides approval with the configuration's trust list combined
\* with the review's trust_label list.
C8_EffectiveTrust ==
    (last.op = "status" /\ last.exit = EXIT_SUCCESS) =>
        last.out = compute_review_status(files, CliState, KeyWT,
                                         ConfigTrust \o CliState.trust_label)

IsChangedFile(fs, path) == \E i \in 1..Len(fs) : fs[i].path = path

KeysOfFile(fs, path) ==
    {get_hunk_key(AllHunks(fs)[i].file_path, AllHunks(fs)[i].hash) :
        i \in {j \in 1..Len(AllHunks(fs)) : AllHunks(fs)[j].file_path = path}}

\* the entry of hunk key k, as _get_or_create_hunk would see it
Entry(state, k) == IF k \in DOMAIN state.hunks THEN Some(state.hunks[k]) ELSE Nil

\* C9: `approve PATH`, PATH the path of a changed file, succeeds, leaves
\* every hunk of that file review-approved and changes no other entry.
C9_ApproveFile ==
    (last.op = "approve" /\ IsChangedFile(files, last.arg)) =>
        /\ last.exit = EXIT_SUCCESS
        /\ \A k \in KeysOfFile(files, last.arg) : ReviewApproved(CliState, k)
        /\ \A k \in (DOMAIN CliState.hunks \cup DOMAIN last.pre.hunks)
                      \ KeysOfFile(files, last.arg) :
              Entry(CliState, k) = Entry(last.pre, k)

\* the last command was `unapprove PATH:HASH`, PATH a changed file and HASH
\* the hash of one of its hunks
UnapprovedOne ==
    /\ last.op = "unapprove"
    /\ ~is_bare_hash(last.arg)
    /\ parse_hunk_spec(last.arg).hashes # Nil
    /\ Len(parse_hunk_spec(last.arg).hashes[1]) = 1
    /\ IsChangedFile(files, parse_hunk_spec(last.arg).path)
    /\ get_hunk_key(parse_hunk_spec(last.arg).path, parse_hunk_spec(last.arg).hashes[1][1])
         \in KeysOfFile(files, parse_hunk_spec(last.arg).path)

\* every hunk of file path was review-approved in state
AllReviewed(fs, state, path) == \A k \in KeysOfFile(fs, path) : ReviewApproved(state, k)

\* the hunks of the diff, by position, with the hash of the spec in file PATH
\* or in a file under PATH/
Named(fs, p) ==
    {i \in 1..Len(AllHunks(fs)) :
        /\ AllHunks(fs)[i].hash = p.hashes[1][1]
        /\ \/ AllHunks(fs)[i].file_path = p.path
           \/ StartsWith(AllHunks(fs)[i].file_path, p.path \o <<"/">>)}

KeyAt(fs, i) == get_hunk_key(AllHunks(fs)[i].file_path, AllHunks(fs)[i].hash)

\* C10 as stated: after all hunks of a file were review-approved,
\* `unapprove PATH:HASH` lowers the approved count of status by exactly 1
\* and leaves the entry of every other hunk of the file as it was.
C10_UnapproveLowersByOne ==
    (UnapprovedOne /\ AllReviewed(files, last.pre, parse_hunk_spec(last.arg).path)) =>
        LET p == parse_hunk_spec(last.arg)
        IN  /\ StatusOf(CliState).approved_hunks = StatusOf(last.pre).approved_hunks - 1
            /\ \A k \in KeysOfFile(files, p.path) \ {get_hunk_key(p.path, p.hashes[1][1])} :
                 Entry(CliState, k) = Entry(last.pre, k)

\* C10, amended: `unapprove PATH:HASH` succeeds; it unsets approved_via on
\* the keys of the hunks with that hash in PATH (or in a file under PATH/)
\* and changes nothing else of any entry; the approved count of status
\* drops by the number of those hunks of the diff that were review-approved
\* and whose labels the trust list does not cover.
C10_UnapproveHunk ==
    UnapprovedOne =>
        LET p    == parse_hunk_spec(last.arg)
            keys == {KeyAt(files, i) : i \in Named(files, p)}
            lost == {i \in Named(files, p) :
                        /\ ReviewApproved(last.pre, KeyAt(files, i))
                        /\ HunkClass(CliState, AllHunks(files)[i], StatusTrust(CliState))
                              # "trusted"}
        IN  /\ last.exit = EXIT_SUCCESS
            /\ DOMAIN CliState.hunks = DOMAIN last.pre.hunks
            /\ \A k \in DOMAIN CliState.hunks :
                 CliState.hunks[k] =
                    IF k \in keys THEN [last.pre.hunks[k] EXCEPT !.approved_via = Nil]
                    ELSE last.pre.hunks[k]
            /\ CliState.trust_label = last.pre.trust_label
            /\ StatusOf(CliState).approved_hunks
                 = StatusOf(last.pre).approved_hunks - Cardinality(lost)

\* all hunks of the file were review-approved and unapprove of one of them
\* lowered the approved count by one
C10_Witness ==
    /\ UnapprovedOne
    /\ AllReviewed(files, last.pre, parse_hunk_spec(last.arg).path)
    /\ Cardinality(KeysOfFile(files, parse_hunk_spec(last.arg).path)) = 3
    /\ StatusOf(CliState).approved_hunks = StatusOf(last.pre).approved_hunks - 1
    /\ ~ReviewApproved(CliState, get_hunk_key(P_a, H_a))
    /\ ReviewApproved(CliState, get_hunk_key(P_a, H_b))

----------------------------------------------------------------------------
\* Properties of the state service, continued (Spec)

\* C11: unapprove_hunk on a hunk with stored approval unsets approved_via and
\* leaves its label, reasoning and count, every other hunk, the trust list
\* and the notes as they were; afterwards the hunk is approved exactly when
\* the trust list covers its labels. On a key that is unknown or has no
\* stored approval it changes no hunk, trust list or notes and writes no file.
C11_UnapproveFallsBack ==
    [][last'.op = "unapprove_hunk" =>
        LET before == St(KeyWT)
            after  == St(KeyWT)'
            k      == last'.hk
        IN  /\ after.trust_label = before.trust_label
            /\ after.notes = before.notes
            /\ IF k \in DOMAIN before.hunks /\ before.hunks[k].approved_via # Nil
               THEN /\ after.hunks = [before.hunks EXCEPT ![k].approved_via = Nil]
                    /\ is_hunk_approved(after.hunks[k], after.trust_label)
                          <=> is_hunk_trusted(after.hunks[k], after.trust_label)
                    /\ is_hunk_approved(after.hunks[k], after.trust_label)
                          <=> (after.hunks[k].label # <<>>
                               /\ Covers(after.trust_label, after.hunks[k].label))
               ELSE /\ after.hunks = before.hunks
                    /\ disk' = disk]_vars

\* unapprove_hunk took the stored approval of a hunk with a count away and
\* the hunk is still approved, by the trust list
C11_Witness ==
    /\ last.op = "unapprove_hunk"
    /\ St(KeyWT).updated_at = now - 1
    /\ last.hk \in DOMAIN St(KeyWT).hunks
    /\ St(KeyWT).hunks[last.hk].approved_via = Nil
    /\ St(KeyWT).hunks[last.hk].count # Nil
    /\ is_hunk_approved(St(KeyWT).hunks[last.hk], St(KeyWT).trust_label)

\* unapprove_hunk on a key the state does not hold
C11_WitnessUnknown ==
    /\ last.op = "unapprove_hunk"
    /\ last.hk \notin DOMAIN St(KeyWT).hunks
    /\ DOMAIN St(KeyWT).hunks # {}

----------------------------------------------------------------------------
\* pullapprove_review/state.py: the older loader, with the schema
\* HunkState(suggested, reviewed_by, reason). Its definitions carry the
\* prefix Old_.

\* rstrip("+")
RECURSIVE Old_rstrip_plus(_)
Old_rstrip_plus(s) ==
    IF s # <<>> /\ s[Len(s)] = "+" THEN Old_rstrip_plus(SubSeq(s, 1, Len(s) - 1)) ELSE s

\* new is Nil for None
Old__parse_comparison_key(comparison_key) ==
    LET working_tree == comparison_key # <<>> /\ comparison_key[Len(comparison_key)] = "+"
        key_without_plus == Old_rstrip_plus(comparison_key)
        d == DotDot(key_without_plus)
        new == SubSeq(key_without_plus, d + 2, Len(key_without_plus))
    IN  IF d # 0
        THEN [old |-> SubSeq(key_without_plus, 1, d - 1),
              new |-> IF new # <<>> THEN Some(new) ELSE Nil,
              working_tree |-> working_tree \/ new = <<>>,
              key |-> comparison_key]
        ELSE [old |-> key_without_plus, new |-> Nil, working_tree |-> TRUE,
              key |-> comparison_key]

\* trivial: true -> "agent", false -> "human", anything else -> None
Old_Suggested(trivial) ==
    IF trivial = JBool(TRUE) THEN JStr("agent")
    ELSE IF trivial = JBool(FALSE) THEN JStr("human")
    ELSE JNull

Old_MigComparisonKey(data) ==
    IF Has(data, "comparisonKey") /\ ~Has(data, "comparison")
    THEN Put(Del(data, "comparisonKey"), "comparison",
             Old__parse_comparison_key(data["comparisonKey"]))
    ELSE data

Old_MigReviewedHunks(data) ==
    IF Has(data, "reviewedHunks") \/ Has(data, "reviewed_hunks")
    THEN LET first  == IF Has(data, "reviewedHunks") THEN data["reviewedHunks"] ELSE <<>>
             d1     == Del(data, "reviewedHunks")
             second == first = <<>>
             old    == IF second
                       THEN IF Has(d1, "reviewed_hunks") THEN d1["reviewed_hunks"] ELSE <<>>
                       ELSE first
             d2     == IF second THEN Del(d1, "reviewed_hunks") ELSE d1
             hunks  == HunksOf(d2)
         IN  Put(d2, "hunks",
                 [k \in DOMAIN hunks \cup RangeOf(old) |->
                    IF k \in RangeOf(old)
                    THEN IF k \in DOMAIN hunks
                         THEN Put(hunks[k], "reviewed_by", JStr("human"))
                         ELSE [reviewed_by |-> JStr("human")]
                    ELSE hunks[k]])
    ELSE data

Old_MigClassifications(data) ==
    IF Has(data, "classifications")
    THEN LET cls   == data["classifications"]
             d1    == Del(data, "classifications")
             hunks == HunksOf(d1)
         IN  Put(d1, "hunks",
                 [k \in DOMAIN hunks \cup DOMAIN cls |->
                    IF k \in DOMAIN cls
                    THEN Put(Put(IF k \in DOMAIN hunks THEN hunks[k] ELSE EmptyDict,
                                 "suggested",
                                 Old_Suggested(IF Has(cls[k], "trivial")
                                               THEN cls[k]["trivial"] ELSE JNull)),
                             "reason",
                             IF Has(cls[k], "reason") THEN cls[k]["reason"] ELSE JNull)
                    ELSE hunks[k]])
    ELSE data

\* reviewed: bool -> reviewed_by
Old_MigReviewed(d) ==
    IF Has(d, "reviewed") /\ ~Has(d, "reviewed_by")
    THEN Put(Del(d, "reviewed"), "reviewed_by",
             IF Truthy(d["reviewed"]) THEN JStr("human") ELSE JNull)
    ELSE d

\* review -> suggested
Old_MigReview(d) ==
    IF Has(d, "review") /\ ~Has(d, "suggested")
    THEN Put(Del(d, "review"), "suggested", d["review"])
    ELSE d

\* trivial -> suggested
Old_MigTrivial(d) ==
    IF Has(d, "trivial") /\ ~Has(d, "suggested")
    THEN Put(Del(d, "trivial"), "suggested", Old_Suggested(d["trivial"]))
    ELSE d

\* human -> suggested
Old_MigHuman(d) ==
    IF Has(d, "human") /\ ~Has(d, "suggested")
    THEN Put(Del(d, "human"), "suggested",
             IF IsStr(d["human"], "required") THEN JStr("human")
             ELSE IF IsStr(d["human"], "optional") \/ IsStr(d["human"], "auto")
                  THEN JStr("agent")
             ELSE IF IsStr(d["human"], "undecided") THEN JStr("undecided")
             ELSE JNull)
    ELSE d

Old_MigrateHunk(d) ==
    Bind(Bind(Bind(Bind(d, Old_MigReviewed), Old_MigReview), Old_MigTrivial), Old_MigHuman)

Old_MigHunks(data) ==
    Bind(HunksOf(data), LAMBDA h :
        Put(data, "hunks", [k \in DOMAIN h |-> Old_MigrateHunk(h[k])]))

Old_MigDefaults(data, comparison_key, t) ==
    LET d1 == IF ~Has(data, "created_at") THEN Put(data, "created_at", t) ELSE data
        d2 == IF ~Has(d1, "updated_at") THEN Put(d1, "updated_at", t) ELSE d1
    IN  IF ~Has(d2, "comparison")
        THEN Put(d2, "comparison", Old__parse_comparison_key(comparison_key))
        ELSE d2

\* pydantic validation of the fields of the older HunkState
Old_HunkValid(d) ==
    /\ Has(d, "suggested") =>
          d["suggested"] \in {JNull, JStr("human"), JStr("agent"), JStr("undecided")}
    /\ Has(d, "reviewed_by") => d["reviewed_by"] \in {JNull, JStr("human"), JStr("agent")}
    /\ Has(d, "reason") => d["reason"].t \in {"null", "str"}

Old_Field(d, f) == IF Has(d, f) /\ d[f].t = "str" THEN Some(d[f].v) ELSE Nil

\* ReviewState(**data) of the older schema, or ValueError
Old_ReviewState(data) ==
    IF \E k \in DOMAIN data["hunks"] : ~Old_HunkValid(data["hunks"][k])
    THEN ValueError
    ELSE [comparison |-> data["comparison"],
          hunks      |-> [k \in DOMAIN data["hunks"] |->
                            [suggested   |-> Old_Field(data["hunks"][k], "suggested"),
                             reviewed_by |-> Old_Field(data["hunks"][k], "reviewed_by"),
                             reason      |-> Old_Field(data["hunks"][k], "reason")]],
          notes      |-> IF Has(data, "notes") THEN data["notes"] ELSE <<>>,
          created_at |-> data["created_at"],
          updated_at |-> data["updated_at"]]

Old__migrate_state(data, comparison_key, t) ==
    Bind(Bind(Bind(Bind(Bind(data, Old_MigComparisonKey), Old_MigReviewedHunks),
                   Old_MigClassifications), Old_MigHunks),
         LAMBDA d : Old_ReviewState(Old_MigDefaults(d, comparison_key, t)))

Old_opt(x) == IF x = Nil THEN JNull ELSE JStr(x[1])

\* ReviewState.model_dump() of the older schema
Old_model_dump(state) ==
    [comparison |-> state.comparison,
     hunks      |-> [k \in DOMAIN state.hunks |->
                       [suggested   |-> Old_opt(state.hunks[k].suggested),
                        reviewed_by |-> Old_opt(state.hunks[k].reviewed_by),
                        reason      |-> Old_opt(state.hunks[k].reason)]],
     notes      |-> state.notes,
     created_at |-> state.created_at,
     updated_at |-> state.updated_at]

----------------------------------------------------------------------------
\* SpecLoad: one service instance and a caller that keeps the object load
\* returned, over state files of every kind

\* a file written by save in the current schema
SavedDoc ==
    model_dump([EmptyState(KeyWT, 0) EXCEPT
                  !.hunks = (HK1 :> [label |-> <<L_ia>>, reasoning |-> Some("ws"),
                                     approved_via |-> Some("review"), count |-> Some(1)]),
                  !.trust_label = <<G_fStar>>])

\* files that are not JSON or fail validation (JSONDecodeError, ValueError)
InvalidDoc == [SavedDoc EXCEPT !.hunks[HK1]["approved_via"] = JStr("agent")]
BadKeyDoc  == [comparisonKey |-> <<"m">>]
UnreadableDocs == {NotJson, InvalidDoc, BadKeyDoc}

\* files that are JSON of another shape: [] and null at the top, hunks null,
\* hunks a list next to reviewedHunks, a hunk entry null, comparison null
TopList      == JList(<<>>)
TopNull      == JNull
HunksNull    == [SavedDoc EXCEPT !.hunks = NotObject(JNull)]
HunksList    == [comparisonKey |-> KeyWT, reviewedHunks |-> <<HK1>>,
                 hunks |-> NotObject(JList(<<>>))]
EntryNull    == [SavedDoc EXCEPT !.hunks[HK1] = JNull]
ComparisonNull == [SavedDoc EXCEPT !.comparison = JNull]
MisshapenDocs == {TopList, TopNull, HunksNull, HunksList, EntryNull, ComparisonNull}

HK3 == get_hunk_key(P_b, H_c)

\* a file of the first schema: reviewed and trivial on the hunks
LegacyTrivial ==
    [comparison |-> ComparisonWT,
     hunks      |-> (HK1 :> [reviewed |-> JBool(TRUE), trivial |-> JBool(TRUE),
                             reason |-> JStr("ws")]
                  @@ HK2 :> [reviewed |-> JBool(FALSE), trivial |-> JBool(FALSE),
                             reason |-> JStr("logic")]
                  @@ HK3 :> [reviewed |-> JBool(FALSE), trivial |-> JNull,
                             reason |-> JNull]),
     notes      |-> <<>>,
     created_at |-> 0,
     updated_at |-> 0]

\* the files the older loader is applied to
Old_Docs == {SavedDoc, InvalidDoc, BadKeyDoc, LegacyTrivial} \cup LegacyDocs

Held(state, cached, cleared) == Some([state |-> state, cached |-> cached, cleared |-> cleared])

LastLoad(op, raised, ret) == [op |-> op, raised |-> raised, ret |-> ret]

\* the held reference after the service changed the object it caches
Follow(w) ==
    IF held # Nil /\ held[1].cached
    THEN Held(w.cache[KeyWT], TRUE, held[1].cleared)
    ELSE held

LoadDone(w, h, l) ==
    /\ cache' = w.cache
    /\ disk' = w.disk
    /\ held' = h
    /\ now' = now + 1
    /\ last' = l
    /\ UNCHANGED <<files, config, current, pin, tin, pout, fin, fout>>

InitLoad ==
    /\ files = <<>>
    /\ config = NoConfig
    /\ disk \in {[NoDisk EXCEPT ![get_file_path(KeyWT)] = d] :
                    d \in {Absent, SavedDoc, LegacyTrivial} \cup LegacyDocs
                           \cup UnreadableDocs \cup MisshapenDocs}
    /\ cache = EmptyCache
    /\ current = Nil
    /\ now = 1
    /\ last = LastLoad("init", Nil, Nil)
    /\ pin = <<>> /\ tin = <<>> /\ pout = Nil
    /\ held = Nil /\ fin = Nil /\ fout = Nil

\* state = service.load(key), kept by the caller
CallerLoad ==
    /\ now <= MaxOps
    /\ LET r == load(W, KeyWT, now)
       IN  IF r.raised # Nil
           THEN LoadDone(W, held, LastLoad("load", r.raised, Nil))
           ELSE LoadDone(r.w, Held(r.state, r.w.cache[KeyWT] # NoEntry, FALSE),
                         LastLoad("load", Nil, Some(r.state)))

\* the caller changes the object it holds; the cache sees it when it holds
\* the same object
CallerChange ==
    /\ now <= MaxOps
    /\ held # Nil
    /\ LET state == [held[1].state EXCEPT !.notes = <<"c">>]
       IN  LoadDone([cache |-> IF held[1].cached THEN [cache EXCEPT ![KeyWT] = state]
                               ELSE cache,
                     disk  |-> disk],
                    Held(state, held[1].cached, held[1].cleared),
                    LastLoad("change", Nil, Nil))

\* service.save(state) with the object the caller holds (cli.py 454-455)
CallerSave ==
    /\ now <= MaxOps
    /\ held # Nil
    /\ LET w == save(W, held[1].state, now)
       IN  LoadDone(w, Held(w.cache[KeyWT], TRUE, held[1].cleared),
                    LastLoad("save", Nil, Nil))

\* a service method: its load may raise, and then nothing is changed
SvcAddTrustLabel ==
    \E g \in SvcGlobs :
        /\ now <= MaxOps
        /\ IF load(W, KeyWT, now).raised # Nil
           THEN LoadDone(W, held, LastLoad("add_trust_label", load(W, KeyWT, now).raised, Nil))
           ELSE LET w == add_trust_label(W, now, KeyWT, g)
                IN  LoadDone(w, Follow(w), LastLoad("add_trust_label", Nil, Nil))

SvcApproveHunk ==
    \E hk \in SvcHunkKeys :
        /\ now <= MaxOps
        /\ IF load(W, KeyWT, now).raised # Nil
           THEN LoadDone(W, held, LastLoad("approve_hunk", load(W, KeyWT, now).raised, Nil))
           ELSE LET w == approve_hunk(W, now, KeyWT, hk, 1)
                IN  LoadDone(w, Follow(w), LastLoad("approve_hunk", Nil, Nil))

\* clear pops the cache entry: the held object is no longer the cached one
SvcClear ==
    /\ now <= MaxOps
    /\ LoadDone(clear(W, KeyWT),
                IF held = Nil THEN held ELSE Held(held[1].state, FALSE, TRUE),
                LastLoad("clear", Nil, Nil))

\* the loader of pullapprove_review reads a state file of the same content
\* (pullapprove_review/state.py 110-131), in a service of its own
OldLoad ==
    /\ now <= MaxOps
    /\ disk[get_file_path(KeyWT)] \in Old_Docs
    /\ LET state == Old__migrate_state(disk[get_file_path(KeyWT)], KeyWT, now)
       IN  LoadDone(W, held,
                    LastLoad("old_load", Nil,
                             Some(IF state = ValueError
                                  THEN [comparison |-> Old__parse_comparison_key(KeyWT),
                                        hunks |-> NoHunks, notes |-> <<>>,
                                        created_at |-> now, updated_at |-> now]
                                  ELSE state)))

NextLoad ==
    \/ CallerLoad \/ CallerChange \/ CallerSave
    \/ SvcAddTrustLabel \/ SvcApproveHunk \/ SvcClear \/ OldLoad

SpecLoad == InitLoad /\ [][NextLoad]_vars

\* what a caller sees as an empty state
IsEmptyState(state) ==
    state.hunks = NoHunks /\ state.trust_label = <<>> /\ state.notes = <<>>

\* C12: while a caller holds an object load returned for a key and no clear
\* came in between, the cache holds that very object for the key, so that
\* every further load returns it and every change is seen through it.
C12_OneObjectPerKey ==
    (held # Nil /\ ~held[1].cleared) =>
        /\ held[1].cached
        /\ cache[KeyWT] = held[1].state
        /\ load(W, KeyWT, now).state = held[1].state

\* C13: load raises nothing, and on a file that is absent, not JSON or not
\* valid after migration it returns an empty state.
C13_LoadNeverFails ==
    last.op = "load" =>
        /\ last.raised = Nil
        /\ disk[get_file_path(KeyWT)] \in {Absent} \cup UnreadableDocs \cup MisshapenDocs
              => (last.ret # Nil /\ IsEmptyState(last.ret[1]))

\* C14: whenever save writes the state file of a key, a service with an
\* empty cache that loads the key, at any later time, gets a state equal to
\* the saved one in every field (comparison, hunks, trust_label, notes,
\* created_at, updated_at), and _migrate_state maps the written document to
\* the saved state.
C14_SaveLoadRoundTrip ==
    [][\A key \in AllKeys :
         (disk'[get_file_path(key)] # disk[get_file_path(key)]
            /\ disk'[get_file_path(key)] # Absent) =>
            LET saved == cache'[key]
                again == load([cache |-> EmptyCache, disk |-> disk'], key, now' + 5)
            IN  /\ saved # NoEntry
                /\ again.raised = Nil
                /\ again.state = saved
                /\ again.w.cache[key] = saved
                /\ _migrate_state(disk'[get_file_path(key)], key, now' + 5) = saved]_vars

\* C15: after clear(key) the state file of key does not exist, the cache
\* holds no entry for key and load(key) returns an empty state without
\* raising, whatever the file and the cache held before; the other keys are
\* not touched, and clear of a key without file and without cache entry
\* changes nothing.
C15_ClearRemoves ==
    [][last'.op = "clear" =>
        /\ disk'[get_file_path(KeyWT)] = Absent
        /\ cache'[KeyWT] = NoEntry
        /\ load([cache |-> cache', disk |-> disk'], KeyWT, now').raised = Nil
        /\ IsEmptyState(load([cache |-> cache', disk |-> disk'], KeyWT, now').state)
        /\ \A key \in AllKeys \ {KeyWT} :
             /\ cache'[key] = cache[key]
             /\ disk'[get_file_path(key)] = disk[get_file_path(key)]
        /\ (disk[get_file_path(KeyWT)] = Absent /\ cache[KeyWT] = NoEntry)
             => (disk' = disk /\ cache' = cache)]_vars

\* clear came after the caller had loaded a state with hunks and a trust
\* list; file and cache entry are gone and load returns an empty state
C15_Witness ==
    /\ last.op = "clear"
    /\ held # Nil
    /\ held[1].cleared
    /\ held[1].state.hunks # NoHunks
    /\ held[1].state.trust_label # <<>>
    /\ disk[get_file_path(KeyWT)] = Absent
    /\ cache[KeyWT] = NoEntry
    /\ IsEmptyState(St(KeyWT))

\* the hunks load returned last
Loaded == last.ret[1].hunks

\* the agent-suggested classification a migrated hunk carries, and its
\* human review mark, in either schema
Suggested(h) == IF "suggested" \in DOMAIN h THEN h.suggested ELSE Nil
ReviewMark(h) ==
    IF "reviewed_by" \in DOMAIN h THEN h.reviewed_by = Some("human")
    ELSE h.approved_via = Some("review")

C16_WitnessOld ==
    /\ last.op = "old_load"
    /\ disk[get_file_path(KeyWT)] = LegacyTrivial
    /\ Suggested(Loaded[HK1]) = Some("agent")

\* ------------------------------------------------------------------
\* Batch classification and the stored state (Spec)
\* ------------------------------------------------------------------

\* state b differs from state a at most in label and reasoning of the hunks
\* whose keys are in m
OnlyClassified(a, b, m) ==
    /\ \A k \in DOMAIN a.hunks \ DOMAIN m :
         k \in DOMAIN b.hunks /\ b.hunks[k] = a.hunks[k]
    /\ \A k \in DOMAIN a.hunks \cap DOMAIN m :
         /\ k \in DOMAIN b.hunks
         /\ b.hunks[k].approved_via = a.hunks[k].approved_via
         /\ b.hunks[k].count = a.hunks[k].count
    /\ b.trust_label = a.trust_label
    /\ b.notes = a.notes

\* the state the service holds after set_hunk_classifications(m), and the
\* state the next process loads from the file it wrote
AfterClassifications(m) ==
    LET w == set_hunk_classifications(W, now, KeyWT, m)
    IN  [held   |-> load(w, KeyWT, now + 1).state,
         stored |-> load([cache |-> EmptyCache, disk |-> w.disk], KeyWT, now + 1).state]

\* C17: set_hunk_classifications(m) changes only label and reasoning of the
\* hunks whose keys are in m, for well-formed, partial and malformed entries
\* alike: the hunks outside m are unchanged, approved_via and count of the
\* hunks in m are unchanged, in the state the service holds and in the state
\* stored for the next process.
C17_ClassificationsFrame ==
    \A m \in ClsMaps :
        /\ OnlyClassified(St(KeyWT), AfterClassifications(m).held, m)
        /\ OnlyClassified(St(KeyWT), AfterClassifications(m).stored, m)

\* ------------------------------------------------------------------
\* Hash prefixes on the command line (SpecCli)
\* ------------------------------------------------------------------

\* the distinct hashes of the diff that spec is a prefix of
Candidates(spec, fs) ==
    {AllHunks(fs)[i].hash : i \in {j \in 1..Len(AllHunks(fs)) :
                                      StartsWith(AllHunks(fs)[j].hash, spec)}}

\* C18: approve and unapprove with a bare hash prefix that matches hunks with
\* more than one distinct hash end with a user error and leave the stored
\* state as it was; the prefix is not applied to several distinct hunks.
C18_AmbiguousPrefix ==
    [][(/\ last'.op \in {"approve", "unapprove"}
        /\ is_bare_hash(last'.arg)
        /\ Cardinality(Candidates(last'.arg, files)) > 1)
       => (/\ last'.exit = EXIT_USER_ERROR
           /\ CliState' = last'.pre)]_vars

\* ------------------------------------------------------------------
\* Hunk keys (SpecKeys): get_hunk_key and parse_hunk_key on bounded texts
\* ------------------------------------------------------------------

MaxPathLen == 3    \* length of a path
MaxHashLen == 2    \* length of a hash
MaxTextLen == 3    \* length of a text handed to parse_hunk_key as it is

PathChars == {"a", ":", "/"}
HashChars == {"c", "0"}

\* hunk_key.split(":", 1): the cut at the first colon
Mut_parse_hunk_key(hunk_key) ==
    LET hits == {i \in 1..Len(hunk_key) : hunk_key[i] = ":"}
        i    == CHOOSE n \in hits : \A j \in hits : n <= j
    IN  IF hits = {} THEN ValueError
        ELSE [path |-> SubSeq(hunk_key, 1, i - 1),
              hash |-> SubSeq(hunk_key, i + 1, Len(hunk_key))]

\* parts = hunk_key.rsplit(":", 1); the pair (parts[0], parts[1]) is written
\* [path, hash]
parse_hunk_key(hunk_key) ==
    LET i == LastIndex(hunk_key, ":")
    IN  IF i = 0 THEN ValueError
        ELSE [path |-> SubSeq(hunk_key, 1, i - 1),
              hash |-> SubSeq(hunk_key, i + 1, Len(hunk_key))]

InitKeys ==
    /\ files = <<>>
    /\ config = NoConfig
    /\ disk = NoDisk
    /\ cache = EmptyCache
    /\ current = Nil
    /\ now = 1
    /\ last = Last("init", <<>>, 0, <<>>)
    /\ pin = <<>> /\ tin = <<>> /\ pout = Nil
    /\ held = Nil
    /\ fin \in {Some([path |-> p, hash |-> h]) :
                    p \in SeqsUpTo(PathChars, MaxPathLen),
                    h \in SeqsUpTo(HashChars, MaxHashLen)}
               \cup {Some([text |-> x]) : x \in SeqsUpTo(PathChars, MaxTextLen)}
    /\ fout = Nil

KeysDone(out) ==
    /\ fout' = Some(out)
    /\ UNCHANGED <<files, config, disk, cache, current, now, last, pin, tin, pout, held, fin>>

\* key = get_hunk_key(path, hash)
GetHunkKey ==
    /\ fout = Nil
    /\ "path" \in DOMAIN fin[1]
    /\ KeysDone([key |-> get_hunk_key(fin[1].path, fin[1].hash)])

\* parse_hunk_key(key) of the key built before
ParseHunkKey ==
    /\ fout # Nil
    /\ DOMAIN fout[1] = {"key"}
    /\ KeysDone([key |-> fout[1].key, parsed |-> parse_hunk_key(fout[1].key)])

\* parse_hunk_key(text) of a text as it is
ParseText ==
    /\ fout = Nil
    /\ "text" \in DOMAIN fin[1]
    /\ KeysDone([key |-> fin[1].text, parsed |-> parse_hunk_key(fin[1].text)])

NextKeys == GetHunkKey \/ ParseHunkKey \/ ParseText

SpecKeys == InitKeys /\ [][NextKeys]_vars

\* C19: parse_hunk_key(get_hunk_key(path, hash)) is (path, hash) for every
\* path, with or without colons, and every hash without colon; and
\* parse_hunk_key of a text without colon raises ValueError.
C19_HunkKeyRoundTrip ==
    (fout # Nil /\ "parsed" \in DOMAIN fout[1]) =>
        /\ "path" \in DOMAIN fin[1] =>
              /\ fout[1].key = get_hunk_key(fin[1].path, fin[1].hash)
              /\ fout[1].parsed = [path |-> fin[1].path, hash |-> fin[1].hash]
        /\ ("text" \in DOMAIN fin[1] /\ \A i \in 1..Len(fin[1].text) : fin[1].text[i] # ":")
              => fout[1].parsed = ValueError

\* a key whose path holds a colon was parsed back
C19_Witness ==
    /\ fout # Nil /\ "parsed" \in DOMAIN fout[1]
    /\ "path" \in DOMAIN fin[1]
    /\ \E i \in 1..Len(fin[1].path) : fin[1].path[i] = ":"
    /\ fin[1].hash # <<>>
    /\ fout[1].parsed.path = fin[1].path

\* a text without colon was refused
C19_WitnessInvalid ==
    /\ fout # Nil /\ "parsed" \in DOMAIN fout[1]
    /\ "text" \in DOMAIN fin[1]
    /\ fin[1].text # <<>>
    /\ fout[1].parsed = ValueError

\* ------------------------------------------------------------------
\* Parsing a file's diff into hunks (SpecHunks): hunks.py on bounded texts.
\* A text is the sequence of its characters; a diff is drawn as a sequence
\* of lines and joined with newlines before it is parsed.
\* ------------------------------------------------------------------

MaxLines == 4    \* lines of one file's diff

NL == "\n"
WhiteSpace == {" ", "\t", "\r", NL}
Digits == <<"0", "1", "2", "3", "4", "5", "6", "7", "8", "9">>
IsDigit(c) == \E n \in 1..10 : Digits[n] = c

\* int(text) of a text of digits
RECURSIVE int(_)
int(s) ==
    IF s = <<>> THEN 0
    ELSE 10 * int(SubSeq(s, 1, Len(s) - 1))
         + (CHOOSE n \in 0..9 : Digits[n + 1] = s[Len(s)])

\* str.strip()
strip(s) ==
    LET ink == {i \in 1..Len(s) : s[i] \notin WhiteSpace}
    IN  IF ink = {} THEN <<>>
        ELSE SubSeq(s, CHOOSE i \in ink : \A j \in ink : i <= j,
                       CHOOSE i \in ink : \A j \in ink : j <= i)

\* hashlib.md5(content.encode()).hexdigest()[:8], taken as free of
\* collisions: the digest is stood for by the content it was computed from
hash_content(content) == <<"m", "d", "5", "=">> \o content

NoMatch == [stop |-> 0, g2 |-> <<>>, g3 |-> <<>>]

\* hunk_pattern matched from position i of s, the automaton of
\*   @@ \s+ - \d+ (,\d+)? \s+ \+ (\d+) (,(\d+))? \s+ @@ .* $
\* in state q, with the groups 2 and 3 read so far; stop is the position after
\* the match, 0 without match (\s takes newlines, . does not)
RECURSIVE HunkPattern(_, _, _, _, _)
HunkPattern(s, i, q, g2, g3) ==
    LET c  == s[i]
        ws == c \in WhiteSpace
        dg == IsDigit(c)
        Go(q2) == HunkPattern(s, i + 1, q2, g2, g3)
    IN  IF q = 15
        THEN IF i > Len(s) \/ c = NL
             THEN [stop |-> i, g2 |-> g2, g3 |-> g3]
             ELSE Go(15)
        ELSE IF i > Len(s) THEN NoMatch
        ELSE CASE q \in {0, 1, 14} -> IF c = "@" THEN Go(q + 1) ELSE NoMatch
               [] q = 2  -> IF ws THEN Go(3) ELSE NoMatch
               [] q = 3  -> IF ws THEN Go(3) ELSE IF c = "-" THEN Go(4) ELSE NoMatch
               [] q \in {4, 6} -> IF dg THEN Go(q + 1) ELSE NoMatch
               [] q = 5  -> IF dg THEN Go(5) ELSE IF c = "," THEN Go(6)
                            ELSE IF ws THEN Go(8) ELSE NoMatch
               [] q = 7  -> IF dg THEN Go(7) ELSE IF ws THEN Go(8) ELSE NoMatch
               [] q = 8  -> IF ws THEN Go(8) ELSE IF c = "+" THEN Go(9) ELSE NoMatch
               [] q = 9  -> IF dg THEN HunkPattern(s, i + 1, 10, Append(g2, c), g3)
                            ELSE NoMatch
               [] q = 10 -> IF dg THEN HunkPattern(s, i + 1, 10, Append(g2, c), g3)
                            ELSE IF c = "," THEN Go(11)
                            ELSE IF ws THEN Go(13) ELSE NoMatch
               [] q = 11 -> IF dg THEN HunkPattern(s, i + 1, 12, g2, Append(g3, c))
                            ELSE NoMatch
               [] q = 12 -> IF dg THEN HunkPattern(s, i + 1, 12, g2, Append(g3, c))
                            ELSE IF ws THEN Go(13) ELSE NoMatch
               [] q = 13 -> IF ws THEN Go(13) ELSE IF c = "@" THEN Go(14) ELSE NoMatch

\* hunk_pattern.finditer(diff_content) from position p on: hunk_starts.
\* index is the position of the header, stop the position after it.
RECURSIVE finditer(_, _)
finditer(s, p) ==
    IF p > Len(s) THEN <<>>
    ELSE IF p = 1 \/ s[p - 1] = NL
    THEN Bind(HunkPattern(s, p, 0, <<>>, <<>>), LAMBDA m :
            IF m.stop = 0 THEN finditer(s, p + 1)
            ELSE <<[index      |-> p,
                    stop       |-> m.stop,
                    header     |-> SubSeq(s, p, m.stop - 1),
                    start_line |-> int(m.g2),
                    line_count |-> IF m.g3 # <<>> THEN int(m.g3) ELSE 1]>>
                 \o finditer(s, m.stop))
    ELSE finditer(s, p + 1)

DiffHunk(file_path, hash, header, content, start_line, end_line) ==
    [file_path |-> file_path, hash |-> hash, header |-> header,
     content |-> content, start_line |-> start_line, end_line |-> end_line]

\* the text hashed with the header in it
Mut_diff_lines(diff_content, start, end_index) ==
    strip(SubSeq(diff_content, start.index, end_index - 1))

\* diff_lines = diff_content[header_end:end_index].strip()
diff_lines(diff_content, start, end_index) ==
    strip(SubSeq(diff_content, start.stop, end_index - 1))

_parse_hunks_from_content(file_path, diff_content) ==
    LET hunk_starts == finditer(diff_content, 1)
        end_index(i) == IF i + 1 <= Len(hunk_starts)
                        THEN hunk_starts[i + 1].index
                        ELSE Len(diff_content) + 1
        hunks == [i \in 1..Len(hunk_starts) |->
                    LET start == hunk_starts[i]
                    IN  DiffHunk(file_path,
                                 hash_content(diff_lines(diff_content, start, end_index(i))),
                                 start.header,
                                 strip(SubSeq(diff_content, start.index, end_index(i) - 1)),
                                 start.start_line,
                                 start.start_line + start.line_count - 1)]
    IN  IF hunks = <<>> /\ strip(diff_content) # <<>>
        THEN <<DiffHunk(file_path, hash_content(diff_content),
                        <<"(", "e", "n", "t", "i", "r", "e", " ", "f", "i", "l", "e", ")">>,
                        strip(diff_content), 1, 1)>>
        ELSE hunks

\* the lines a diff is drawn from
Hdr1 == <<"@", "@", " ", "-", "1", " ", "+", "1", " ", "@", "@">>
Hdr2 == <<"@", "@", " ", "-", "2", ",", "3", " ", "+", "1", "4", ",", "5", " ",
          "@", "@", " ", "f", "(", ")">>
HeaderLines == {Hdr1, Hdr2}
BodyLines == {<<" ", "x">>, <<"+", "y">>, <<"-", "x">>}
DiffLines == HeaderLines \cup BodyLines \cup {<<"-", "-", "-", " ", "a">>}

\* "\n".join(lines)
RECURSIVE Join(_)
Join(lines) ==
    IF lines = <<>> THEN <<>>
    ELSE IF Len(lines) = 1 THEN lines[1]
    ELSE lines[1] \o <<NL>> \o Join(Tail(lines))

\* the same lines with every hunk header replaced by header h
Reheader(lines, h) ==
    [i \in 1..Len(lines) |-> IF lines[i] \in HeaderLines THEN h ELSE lines[i]]

\* the bodies of the hunks of lines: for each header line, the lines after it
\* up to the next header line or the end
Bodies(lines) ==
    LET at == {i \in 1..Len(lines) : lines[i] \in HeaderLines}
        Nth(n) == CHOOSE i \in at : Cardinality({j \in at : j < i}) = n - 1
        End(n) == IF n < Cardinality(at) THEN Nth(n + 1) - 1 ELSE Len(lines)
    IN  [n \in 1..Cardinality(at) |-> SubSeq(lines, Nth(n) + 1, End(n))]

InitHunks ==
    /\ files = <<>>
    /\ config = NoConfig
    /\ disk = NoDisk
    /\ cache = EmptyCache
    /\ current = Nil
    /\ now = 1
    /\ last = Last("init", <<>>, 0, <<>>)
    /\ pin = <<>> /\ tin = <<>> /\ pout = Nil
    /\ held = Nil
    /\ fin \in {Some([lines |-> ls]) : ls \in SeqsUpTo(DiffLines, MaxLines)}
    /\ fout = Nil

HunksDone(out) ==
    /\ fout' = Some(out)
    /\ UNCHANGED <<files, config, disk, cache, current, now, last, pin, tin, pout, held, fin>>

\* the diff is parsed
ParseDiff ==
    /\ fout = Nil
    /\ "lines" \in DOMAIN fin[1]
    /\ HunksDone([first |-> _parse_hunks_from_content(P_a, Join(fin[1].lines))])

\* the same text is parsed once more
ParseAgain ==
    /\ fout # Nil
    /\ DOMAIN fout[1] = {"first"}
    /\ HunksDone([first  |-> fout[1].first,
                  second |-> _parse_hunks_from_content(P_a, Join(fin[1].lines))])

\* the diff of the same file after its hunks moved: other line numbers and
\* header text, the same bodies
ParseShifted ==
    \E h \in HeaderLines :
        /\ fout # Nil
        /\ DOMAIN fout[1] = {"first"}
        /\ HunksDone([first   |-> fout[1].first,
                      hdr     |-> h,
                      shifted |-> _parse_hunks_from_content(
                                      P_a, Join(Reheader(fin[1].lines, h)))])

NextHunks == ParseDiff \/ ParseAgain \/ ParseShifted

SpecHunks == InitHunks /\ [][NextHunks]_vars

Hashes(hunks) == [i \in 1..Len(hunks) |-> hunks[i].hash]
Keys(hunks) == [i \in 1..Len(hunks) |-> get_hunk_key(hunks[i].file_path, hunks[i].hash)]

\* C20: the hash of a hunk parsed from an @@ header is the hash of its body,
\* the text after the header line up to the next header or the end, so two
\* hunks of a file with the same body have the same hash and key; parsing
\* the same text twice gives the same hashes; and the same diff under other
\* line numbers and header text gives the same hashes and keys, hunk by hunk.
C20_HashOfBodyOnly ==
    (fout # Nil /\ "first" \in DOMAIN fout[1]) =>
        LET lines == fin[1].lines
            first == fout[1].first
            body  == Bodies(lines)
        IN  /\ body # <<>> =>
                 /\ Len(first) = Len(body)
                 /\ \A i \in 1..Len(body) :
                      first[i].hash = hash_content(strip(Join(body[i])))
                 /\ \A i, j \in 1..Len(body) :
                      body[i] = body[j] =>
                          /\ first[i].hash = first[j].hash
                          /\ Keys(first)[i] = Keys(first)[j]
            /\ "second" \in DOMAIN fout[1] =>
                 Hashes(fout[1].second) = Hashes(first)
            /\ "shifted" \in DOMAIN fout[1] =>
                 /\ Hashes(fout[1].shifted) = Hashes(first)
                 /\ Keys(fout[1].shifted) = Keys(first)

\* a diff with two hunks was parsed again under a header with other line
\* numbers and text, and the hashes are the same
C20_Witness ==
    /\ fout # Nil /\ "shifted" \in DOMAIN fout[1]
    /\ Len(fout[1].first) = 2
    /\ \E i \in 1..2 :
         /\ fout[1].shifted[i].header # fout[1].first[i].header
         /\ fout[1].shifted[i].start_line # fout[1].first[i].start_line
         /\ fout[1].shifted[i].hash = fout[1].first[i].hash
         /\ Bodies(fin[1].lines)[i] # <<>>

\* ------------------------------------------------------------------
\* Comparison keys and their state files (SpecFiles): the service on three
\* comparisons, one of them of the branch H_working-tree
\* ------------------------------------------------------------------

MaxFileOps == 3    \* operations in one behaviour

\* make_comparison("m", "H_working-tree").key
KeyTw == <<"m", ".", ".", "H", "_", "w", "o", "r", "k", "i", "n", "g", "-", "t", "r", "e", "e">>

FileKeys == {KeyWT, KeyBr, KeyTw}

\* the part of a state that does not depend on the time of the call
Content(state) ==
    [comparison |-> state.comparison, hunks |-> state.hunks,
     trust_label |-> state.trust_label, notes |-> state.notes]

LastFile(op, key) == [op |-> op, key |-> key]

InitFiles ==
    /\ files = <<>>
    /\ config = NoConfig
    /\ cache = [k \in FileKeys |-> NoEntry]
    /\ disk = [f \in {get_file_path(k) : k \in FileKeys} |-> Absent]
    /\ current = Nil
    /\ now = 1
    /\ last = LastFile("init", <<>>)
    /\ pin = <<>> /\ tin = <<>> /\ pout = Nil
    /\ held = Nil /\ fin = Nil /\ fout = Nil

FilesDone(w, l) ==
    /\ cache' = w.cache
    /\ disk' = w.disk
    /\ now' = now + 1
    /\ last' = l
    /\ UNCHANGED <<files, config, current, pin, tin, pout, held, fin, fout>>

FileApproveHunk ==
    \E k \in FileKeys, hk \in SvcHunkKeys :
        /\ now <= MaxFileOps
        /\ FilesDone(approve_hunk(W, now, k, hk, 1), LastFile("approve_hunk", k))

FileAddTrustLabel ==
    \E k \in FileKeys, g \in SvcGlobs :
        /\ now <= MaxFileOps
        /\ FilesDone(add_trust_label(W, now, k, g), LastFile("add_trust_label", k))

FileSetLabel ==
    \E k \in FileKeys :
        /\ now <= MaxFileOps
        /\ FilesDone(set_label(W, now, k, HK1, "x"), LastFile("set_label", k))

FileClear ==
    \E k \in FileKeys :
        /\ now <= MaxFileOps
        /\ FilesDone(clear(W, k), LastFile("clear", k))

\* the next invocation: a service with an empty cache
FileNewProcess ==
    /\ now <= MaxFileOps
    /\ \E k \in FileKeys : cache[k] # NoEntry
    /\ FilesDone([cache |-> [k \in FileKeys |-> NoEntry], disk |-> disk],
                 LastFile("new_process", <<>>))

NextFiles ==
    \/ FileApproveHunk \/ FileAddTrustLabel \/ FileSetLabel \/ FileClear
    \/ FileNewProcess

SpecFiles == InitFiles /\ [][NextFiles]_vars

\* C21: distinct comparison keys never share a state file: load(k) returns a
\* state whose comparison.key is k, and an operation on key k1 leaves what
\* load returns for every other key k2 as it was.
C21_KeysNeverShare ==
    /\ [](\A k \in FileKeys : St(k).comparison.key = k)
    /\ [][\A k2 \in FileKeys :
            (last'.op # "new_process" /\ last'.key # k2)
                => Content(St(k2))' = Content(St(k2))]_vars

----------------------------------------------------------------------------
\* SpecDiff: diff --json (cli.py) with its filters (review.py) and its
\* pagination, after labeling, approval, trust and clearing commands

MaxDiffCmds == 1

DiffFilters(path, file_status, unreviewed, unlabeled, label) ==
    [path |-> path, file_status |-> file_status, unreviewed |-> unreviewed,
     unlabeled |-> unlabeled, label |-> label]

Mut_hunk_passes_filter(hunk, hunk_state, filters) ==
    /\ ~(filters.unreviewed /\ hunk_state # Nil /\ hunk_state[1].approved_via # Nil)
    /\ ~(filters.label # Nil /\ filters.label # Some("")
         /\ (IF hunk_state # Nil THEN hunk_state[1].reasoning ELSE Nil) # filters.label)

\* hunk_state is Nil when the state has no entry for the hunk
hunk_passes_filter(hunk, hunk_state, filters) ==
    IF filters.unreviewed /\ hunk_state # Nil /\ hunk_state[1].approved_via # Nil
    THEN FALSE
    ELSE IF filters.unlabeled /\ hunk_state # Nil /\ hunk_state[1].reasoning # Nil
    THEN FALSE
    ELSE IF filters.label # Nil /\ filters.label # Some("")
            /\ (IF hunk_state # Nil THEN hunk_state[1].reasoning ELSE Nil) # filters.label
    THEN FALSE
    ELSE TRUE

filter_files(fs, filters) ==
    LET byPath == IF filters.path # Nil /\ filters.path # Some(<<>>)
                  THEN MatchingFiles(fs, filters.path[1]) ELSE fs
    IN  IF filters.file_status # Nil /\ filters.file_status # Some("")
        THEN SelectSeq(byPath, LAMBDA f : f.status = filters.file_status[1])
        ELSE byPath

\* hunk_data of diff --json, with the path of the file it is listed under
HunkData(hunk, hunk_state, effective_trust) ==
    [path      |-> hunk.file_path,
     hash      |-> hunk.hash,
     labels    |-> IF hunk_state # Nil THEN hunk_state[1].label ELSE <<>>,
     reasoning |-> IF hunk_state # Nil THEN hunk_state[1].reasoning ELSE Nil,
     trusted   |-> IF hunk_state # Nil
                   THEN is_hunk_trusted(hunk_state[1], effective_trust) ELSE FALSE,
     reviewed  |-> IF hunk_state # Nil
                   THEN hunk_state[1].approved_via = Some("review") ELSE FALSE,
     approved  |-> IF hunk_state # Nil
                   THEN is_hunk_approved(hunk_state[1], effective_trust) ELSE FALSE]

Mut_DiffLoop(hs, i, state, filters, limit, offset, acc) ==
    LET Take(n) == SubSeq(hs, 1, IF n < Len(hs) THEN n ELSE Len(hs))
        page    == IF limit = Nil THEN SubSeq(hs, offset + 1, Len(hs))
                   ELSE SubSeq(Take(offset + limit[1]), offset + 1, Len(Take(offset + limit[1])))
        rows    == SelectSeq(page, LAMBDA h :
                       hunk_passes_filter(h, HunkStateOf(state, h), filters))
    IN  [total_matching |-> Len(SelectSeq(hs, LAMBDA h :
                                hunk_passes_filter(h, HunkStateOf(state, h), filters))),
         hunks_skipped  |-> offset,
         hunks_included |-> Len(rows),
         hunks |-> [j \in 1..Len(rows) |->
                      HunkData(rows[j], HunkStateOf(state, rows[j]), state.trust_label)]]

\* the loop over the hunks hs[i..] of the files, in file order then hunk order
RECURSIVE DiffLoop(_, _, _, _, _, _, _)
DiffLoop(hs, i, state, filters, limit, offset, acc) ==
    IF i > Len(hs) THEN acc
    ELSE LET hunk_state == HunkStateOf(state, hs[i])
             a == [acc EXCEPT !.total_matching = @ + 1]
         IN  IF ~hunk_passes_filter(hs[i], hunk_state, filters)
             THEN DiffLoop(hs, i + 1, state, filters, limit, offset, acc)
             ELSE IF a.hunks_skipped < offset
             THEN DiffLoop(hs, i + 1, state, filters, limit, offset,
                           [a EXCEPT !.hunks_skipped = @ + 1])
             ELSE IF limit # Nil /\ a.hunks_included >= limit[1]
             THEN DiffLoop(hs, i + 1, state, filters, limit, offset, a)
             ELSE DiffLoop(hs, i + 1, state, filters, limit, offset,
                           [a EXCEPT !.hunks_included = @ + 1,
                                     !.hunks = Append(@, HunkData(hs[i], hunk_state,
                                                                  state.trust_label))])

\* diff --json: out is the output document, its files flattened to their hunks
diff_cmd(w0, t, fs, filters, limit, offset) ==
    Bind(get_current_comparison(w0, t), LAMBDA ctx :
    LET c == ctx.comparison
        w == ctx.w
    IN  IF c = Nil THEN Result(w0, EXIT_USER_ERROR, "no review in progress")
        ELSE LET state == load(w, c[1].key, t).state
                 acc   == DiffLoop(AllHunks(filter_files(fs, filters)), 1, state, filters,
                                   limit, offset,
                                   [total_matching |-> 0, hunks_skipped |-> 0,
                                    hunks_included |-> 0, hunks |-> <<>>])
             IN  Result(w, EXIT_SUCCESS,
                   [comparison |-> c[1].key,
                    trust_list |-> state.trust_label,
                    hunks      |-> acc.hunks,
                    pagination |-> [offset |-> offset, limit |-> limit,
                                    returned |-> acc.hunks_included,
                                    total_matching |-> acc.total_matching,
                                    has_more |-> acc.total_matching
                                                   > offset + acc.hunks_included]]))

\* label --clear
label_clear(w0, t) ==
    Bind(get_current_comparison(w0, t), LAMBDA ctx :
        IF ctx.comparison = Nil THEN Result(w0, EXIT_USER_ERROR, "no review in progress")
        ELSE Result(clear_classifications(ctx.w, t, ctx.comparison[1].key),
                    EXIT_SUCCESS, "Labels cleared."))

\* the state directory after `label --stdin` on the diff fs
Labelled(fs) ==
    label_stdin([cache |-> EmptyCache, disk |-> Started], 0, fs, LabelAll).w.disk

DiffDisks(fs) ==
    {Started, Labelled(fs), Reviewed(fs),
     [NoDisk EXCEPT ![get_file_path(KeyWT)] = LegacyTrust]}

DiffPaths    == {Nil, Some(P_a)}
DiffStatuses == {Nil, Some("modified")}
DiffLabels   == {Nil, Some("ws")}
DiffLimits   == {Nil, Some(-1), Some(0), Some(1), Some(2)}
DiffOffsets  == {0, 1, 2}

InitDiff ==
    /\ current = Some(KeyWT)
    /\ files \in {DiffPlain, DiffTwin}
    /\ config = NoConfig
    /\ disk \in DiffDisks(files)
    /\ cache = EmptyCache
    /\ now = 1
    /\ last = [op |-> "init", arg |-> <<>>, exit |-> EXIT_SUCCESS, out |-> "",
               pre |-> EmptyState(KeyWT, 0)]
    /\ pin = <<>> /\ tin = <<>> /\ pout = Nil
    /\ held = Nil /\ fin = Nil /\ fout = Nil

DiffLabelStdin ==
    /\ now <= MaxDiffCmds /\ last.op # "diff"
    /\ CliDone("label", LabelAll, label_stdin(Fresh, now, files, LabelAll))

DiffLabelClear ==
    /\ now <= MaxDiffCmds /\ last.op # "diff"
    /\ CliDone("label --clear", <<>>, label_clear(Fresh, now))

DiffApprove ==
    \E spec \in {P_a \o <<":">> \o H_a, P_b} :
        /\ now <= MaxDiffCmds /\ last.op # "diff"
        /\ CliDone("approve", spec, approve(Fresh, now, files, spec))

DiffTrust ==
    /\ now <= MaxDiffCmds /\ last.op # "diff"
    /\ CliDone("trust", G_iStar, trust(Fresh, now, files, G_iStar))

\* diff --json with any filters and any page, and the same command once more
DiffCmd ==
    \E path \in DiffPaths, file_status \in DiffStatuses, unreviewed \in BOOLEAN,
       unlabeled \in BOOLEAN, label \in DiffLabels,
       limit \in DiffLimits, offset \in DiffOffsets :
        LET filters == DiffFilters(path, file_status, unreviewed, unlabeled, label)
            r       == diff_cmd(Fresh, now, files, filters, limit, offset)
        IN  /\ last.op # "diff"
            /\ CliDone("diff", [filters |-> filters, limit |-> limit, offset |-> offset,
                                again |-> diff_cmd(r.w, now + 1, files, filters,
                                                   limit, offset).out], r)

NextDiff ==
    \/ DiffLabelStdin \/ DiffLabelClear \/ DiffApprove \/ DiffTrust \/ DiffCmd

SpecDiff == InitDiff /\ [][NextDiff]_vars

\* the hunks of the diff that pass the filters, as diff --json shows them
Matching(fs, state, filters) ==
    LET hs   == AllHunks(filter_files(fs, filters))
        pass == SelectSeq(hs, LAMBDA h :
                    hunk_passes_filter(h, HunkStateOf(state, h), filters))
    IN  [j \in 1..Len(pass) |->
            HunkData(pass[j], HunkStateOf(state, pass[j]), state.trust_label)]

\* positions offset+1 .. offset+limit of m (to the end of m without a limit)
Page(m, limit, offset) ==
    LET stop == IF limit = Nil \/ offset + limit[1] > Len(m)
                THEN Len(m) ELSE offset + limit[1]
    IN  IF stop <= offset THEN <<>> ELSE SubSeq(m, offset + 1, stop)

DiffRan == last.op = "diff" /\ last.exit = EXIT_SUCCESS

\* what C22 says of one diff --json, for the limits in lims
Paginated(lims) ==
    (DiffRan /\ last.arg.limit \in lims) =>
        LET a == last.arg
            p == last.out.pagination
            m == Matching(files, last.pre, a.filters)
        IN  /\ last.out.hunks = Page(m, a.limit, a.offset)
            /\ p.total_matching = Len(m)
            /\ p.returned = Len(last.out.hunks)
            /\ a.limit # Nil => p.returned <= a.limit[1]
            /\ p.has_more = (p.total_matching > a.offset + p.returned)
            /\ a.again = last.out

\* C22 as stated: for every offset >= 0 and every limit, diff --json
\* returns exactly the filter-matching hunks at positions offset .. offset +
\* limit - 1 of the file/hunk order, total_matching counts all matching hunks,
\* returned <= limit, has_more = (total_matching > offset + returned), and
\* the same command run again returns the same hunks.
C22_PaginationAnyLimit == Paginated(DiffLimits)

\* C22, amended: the same, for every offset >= 0 and every limit that is
\* absent or >= 0 (with --limit -1 nothing is returned, and 0 > -1).
C22_PaginationAfterFilter ==
    Paginated({l \in DiffLimits : l = Nil \/ l[1] >= 0})

\* a second page of one hunk, behind a filter that removed hunks before it
C22_Witness ==
    /\ DiffRan
    /\ last.arg.filters.unreviewed
    /\ last.arg.offset = 1 /\ last.arg.limit = Some(1)
    /\ last.out.pagination.returned = 1
    /\ last.out.pagination.has_more
    /\ last.out.pagination.total_matching < Len(AllHunks(files))
    /\ last.out.hunks[1].hash # AllHunks(files)[2].hash

C24_UnreviewedAreUnapproved ==
    (DiffRan /\ last.arg.filters.unreviewed
        /\ last.arg.limit = Nil /\ last.arg.offset = 0) =>
        LET others == [last.arg.filters EXCEPT !.unreviewed = FALSE]
        IN  last.out.hunks
              = SelectSeq(Matching(files, last.pre, others), LAMBDA d : ~d.approved)

----------------------------------------------------------------------------
\* SpecReviews: the commands that create, select and delete reviews
\* (cli.py start, switch, delete), with status, approve and stage run on the
\* review they select, over the current pointer and the state files

MaxReviewCmds == 3

R_m  == <<"m">>
R_H  == <<"H">>
R_f  == <<"f">>
R_Hw == <<"H", "_", "w","o","r","k","i","n","g","-","t","r","e","e">>
R_x  == <<"x">>

\* the refs of the repository, and the branch that is checked out
Refs == {R_m, R_H, R_f, R_Hw}
git_current_branch == R_H
git_ref_exists(ref) == ref \in Refs

make_comparison(base, compare, working_tree) ==
    IF working_tree
    THEN [old |-> base, new |-> compare, working_tree |-> TRUE,
          key |-> base \o <<".", ".">> \o compare \o WT_SUFFIX]
    ELSE [old |-> base, new |-> compare, working_tree |-> FALSE,
          key |-> base \o <<".", ".">> \o compare]

IsHEAD(ref) == ref \in {<<"H","E","A","D">>, <<"h","e","a","d">>}

\* a command's outcome: the world, the current pointer, the exit code
Outcome(w, cur, exit, out) == [w |-> w, current |-> cur, exit |-> exit, out |-> out]

Mut_start(w0, t, old0, new_ref0, working_tree) ==
    LET comp == make_comparison(old0, IF new_ref0 = Nil THEN git_current_branch
                                      ELSE new_ref0[1], working_tree)
    IN  IF ~git_ref_exists(old0) THEN Outcome(w0, current, EXIT_USER_ERROR, "ref not found")
        ELSE Outcome(save(w0, EmptyState(comp.key, t), t), Some(comp.key), EXIT_SUCCESS,
                     "Review started")

\* start --old old0 [--new new_ref0] [--working-tree]
start(w0, t, old0, new_ref0, working_tree) ==
    LET old     == IF IsHEAD(old0) THEN git_current_branch ELSE old0
        new_ref == IF new_ref0 = Nil \/ IsHEAD(new_ref0[1])
                   THEN git_current_branch ELSE new_ref0[1]
    IN  IF ~git_ref_exists(old)
        THEN Outcome(w0, current, EXIT_USER_ERROR, "ref not found")
        ELSE IF ~git_ref_exists(new_ref)
        THEN Outcome(w0, current, EXIT_USER_ERROR, "ref not found")
        ELSE LET comp == make_comparison(old, new_ref, working_tree)
             IN  IF w0.disk[get_file_path(comp.key)] # Absent
                 THEN Outcome(w0, current, EXIT_USER_ERROR, "review already exists")
                 ELSE Bind(load(w0, comp.key, t), LAMBDA r :
                        Outcome(save(r.w, r.state, t), Some(comp.key), EXIT_SUCCESS,
                                "Review started"))

\* switch COMPARISON
switch(w0, comparison) ==
    IF w0.disk[get_file_path(comparison)] = Absent
    THEN Outcome(w0, current, EXIT_USER_ERROR, "no review found")
    ELSE Outcome(w0, Some(comparison), EXIT_SUCCESS, "Switched to review")

Mut_delete(w0, comparison, confirmed) ==
    LET target == IF comparison # Nil THEN comparison ELSE current
    IN  IF target = Nil
        THEN Outcome(w0, current, EXIT_USER_ERROR, "no current review to delete")
        ELSE IF w0.disk[get_file_path(target[1])] = Absent
        THEN Outcome(w0, current, EXIT_USER_ERROR, "no review found")
        ELSE IF ~confirmed
        THEN Outcome(w0, current, EXIT_USER_ERROR, "Aborted!")
        ELSE Outcome(clear(w0, target[1]), current, EXIT_SUCCESS, "Deleted review")

\* delete [COMPARISON]; confirmed: -y was given or the prompt was answered yes
delete(w0, comparison, confirmed) ==
    LET target == IF comparison # Nil THEN comparison ELSE current
    IN  IF target = Nil
        THEN Outcome(w0, current, EXIT_USER_ERROR, "no current review to delete")
        ELSE IF w0.disk[get_file_path(target[1])] = Absent
        THEN Outcome(w0, current, EXIT_USER_ERROR, "no review found")
        ELSE IF ~confirmed
        THEN Outcome(w0, current, EXIT_USER_ERROR, "Aborted!")
        ELSE Outcome(clear(w0, target[1]),
                     IF target = current THEN Nil ELSE current,
                     EXIT_SUCCESS, "Deleted review")

\* a new process: no state is cached; ptr is the pointer the command found
FreshReviews == [cache |-> [k \in FileKeys |-> NoEntry], disk |-> disk]

LastReview(op, arg, r) ==
    [op |-> op, arg |-> arg, exit |-> r.exit, out |-> r.out, ptr |-> current]

InitReviews ==
    /\ files = DiffPlain
    /\ config = NoConfig
    /\ current \in {Nil, Some(KeyWT)}
    /\ disk = IF current = Nil THEN NoDisk ELSE Reviewed(DiffPlain)
    /\ cache = [k \in FileKeys |-> NoEntry]
    /\ now = 1
    /\ last = [op |-> "init", arg |-> <<>>, exit |-> EXIT_SUCCESS, out |-> "",
               ptr |-> Nil]
    /\ pin = <<>> /\ tin = <<>> /\ pout = Nil
    /\ held = Nil /\ fin = Nil /\ fout = Nil

ReviewsDone(op, arg, r) ==
    /\ disk' = r.w.disk
    /\ current' = r.current
    /\ now' = now + 1
    /\ last' = LastReview(op, arg, r)
    /\ UNCHANGED <<files, config, cache, pin, tin, pout, held, fin, fout>>

StartArgs ==
    {[old |-> R_m, new |-> Nil, working_tree |-> TRUE],
     [old |-> R_m, new |-> Some(R_f), working_tree |-> FALSE],
     [old |-> R_m, new |-> Some(R_Hw), working_tree |-> FALSE],
     [old |-> R_x, new |-> Nil, working_tree |-> TRUE],
     [old |-> R_m, new |-> Some(R_x), working_tree |-> FALSE]}

\* the key start makes of its arguments
StartKey(a) ==
    make_comparison(a.old, IF a.new = Nil THEN git_current_branch ELSE a.new[1],
                    a.working_tree).key

CmdStart ==
    \E a \in StartArgs :
        /\ now <= MaxReviewCmds
        /\ ReviewsDone("start", a, start(FreshReviews, now, a.old, a.new, a.working_tree))

CmdSwitch ==
    \E k \in FileKeys :
        /\ now <= MaxReviewCmds
        /\ ReviewsDone("switch", k, switch(FreshReviews, k))

CmdDelete ==
    \E comparison \in {Nil} \cup {Some(k) : k \in FileKeys}, confirmed \in BOOLEAN :
        /\ now <= MaxReviewCmds
        /\ ReviewsDone("delete", [comparison |-> comparison, confirmed |-> confirmed],
                       delete(FreshReviews, comparison, confirmed))

CmdReviewStatus ==
    /\ now <= MaxReviewCmds
    /\ LET r == status(FreshReviews, now, files)
       IN  ReviewsDone("status", <<>>, Outcome(FreshReviews, current, r.exit,
                          IF r.exit = EXIT_SUCCESS THEN "status" ELSE r.out))

CmdReviewApprove ==
    /\ now <= MaxReviewCmds
    /\ LET r == approve(FreshReviews, now, files, P_a)
       IN  ReviewsDone("approve", P_a, Outcome(r.w, current, r.exit, r.out))

CmdReviewStage ==
    /\ now <= MaxReviewCmds
    /\ LET r == stage(FreshReviews, now, files)
       IN  ReviewsDone("stage", <<>>, Outcome(r.w, current, r.exit, r.out))

NextReviews ==
    \/ CmdStart \/ CmdSwitch \/ CmdDelete
    \/ CmdReviewStatus \/ CmdReviewApprove \/ CmdReviewStage

SpecReviews == InitReviews /\ [][NextReviews]_vars

Exists(d, key) == d[get_file_path(key)] # Absent

\* what a new process loads for key from the state directory d
Stored(d, key, t) == load([cache |-> [k \in FileKeys |-> NoEntry], disk |-> d], key, t).state

\* C25: start for a comparison whose state file exists exits with the user
\* error code and leaves every state file and the current pointer as they
\* were; start for a comparison without a state file creates the state file
\* of an empty review, changes no other state file, and sets the current
\* pointer to the comparison.
C25_StartExistingFails ==
    [][(last'.op = "start" /\ git_ref_exists(last'.arg.old)
          /\ (last'.arg.new = Nil \/ git_ref_exists(last'.arg.new[1])))
        => LET key == StartKey(last'.arg)
           IN  IF Exists(disk, key)
               THEN /\ last'.exit = EXIT_USER_ERROR
                    /\ disk' = disk
                    /\ current' = current
               ELSE /\ last'.exit = EXIT_SUCCESS
                    /\ Exists(disk', key)
                    /\ Stored(disk', key, now').comparison.key = key
                    /\ Stored(disk', key, now').hunks = NoHunks
                    /\ Stored(disk', key, now').trust_label = <<>>
                    /\ \A f \in DOMAIN disk : f # get_file_path(key) => disk'[f] = disk[f]
                    /\ current' = Some(key)]_vars

\* start failed on a review with approved hunks that is not the current one
C25_Witness ==
    /\ last.op = "start" /\ last.exit = EXIT_USER_ERROR
    /\ StartKey(last.arg) = KeyWT
    /\ current = Some(KeyBr)
    /\ Stored(disk, KeyWT, now).hunks # NoHunks

\* start created a review next to an existing one
C25_WitnessCreated ==
    /\ last.op = "start" /\ last.exit = EXIT_SUCCESS
    /\ current = Some(KeyBr) /\ last.ptr = Some(KeyWT)
    /\ Exists(disk, KeyWT)

\* the review a delete command is about
Target(arg, ptr) == IF arg.comparison # Nil THEN arg.comparison ELSE ptr

Deleted == last.op = "delete" /\ last.exit = EXIT_SUCCESS

\* C26: after delete of the current review its state file is gone and the
\* pointer is unset, so status reports that no review is in progress and a
\* start of the same comparison succeeds; after delete of a review that is
\* not the current one the pointer is what it was.
C26_DeleteCurrent ==
    Deleted =>
        LET target == Target(last.arg, last.ptr)
        IN  IF target = last.ptr
            THEN /\ ~Exists(disk, target[1])
                 /\ current = Nil
                 /\ status(FreshReviews, now, files).exit = EXIT_USER_ERROR
                 /\ status(FreshReviews, now, files).out = "no review in progress"
                 /\ \A a \in StartArgs :
                       StartKey(a) = target[1] =>
                           LET r == start(FreshReviews, now, a.old, a.new, a.working_tree)
                           IN  r.exit = EXIT_SUCCESS /\ r.current = target
            ELSE current = last.ptr

\* the current review was deleted by its name
C26_Witness ==
    /\ Deleted
    /\ last.arg.comparison = Some(KeyWT) /\ last.ptr = Some(KeyWT)
    /\ current = Nil

\* a review that is not the current one was deleted
C26_WitnessOther ==
    /\ Deleted
    /\ last.arg.comparison = Some(KeyBr) /\ last.ptr = Some(KeyWT)
    /\ Exists(disk, KeyWT)

\* C30: after any sequence of start, switch and delete commands, successful
\* or failing, the current pointer is unset or names a key whose state file
\* exists.
C30_PointerNamesStoredReview ==
    current = Nil \/ Exists(disk, current[1])

\* C27: stage on a review whose comparison is not a working-tree comparison
\* exits with the operational-error code, which is not the user-error code,
\* with its message in place of a patch, and changes no state file and not
\* the pointer, whatever hunks of the review are approved.
C27_StageNeedsWorkingTree ==
    [][(last'.op = "stage" /\ current # Nil
          /\ ~Stored(disk, current[1], now).comparison.working_tree)
        => /\ last'.exit = EXIT_OPERATIONAL_ERROR
           /\ EXIT_OPERATIONAL_ERROR # EXIT_USER_ERROR
           /\ last'.out = "stage only works for working tree reviews"
           /\ disk' = disk
           /\ current' = current]_vars

\* stage was refused on the branch review m..f, which has approved hunks
C27_Witness ==
    /\ last.op = "stage" /\ last.exit = EXIT_OPERATIONAL_ERROR
    /\ current = Some(KeyBr)
    /\ \E k \in DOMAIN Stored(disk, KeyBr, now).hunks :
          Stored(disk, KeyBr, now).hunks[k].approved_via = Some("review")

----------------------------------------------------------------------------
\* SpecRace: two invocations of approve_hunk / unapprove_hunk (state.py) on
\* one comparison key, each a process with its own ReviewStateService, so
\* with its own cache. save writes with Path.write_text, which is open for
\* writing (the file is truncated) and then write: two steps of one process
\* between which the other process runs. Nothing locks the file.
\* held[p] is the process: where it is, and the document it is about to write;
\* fin is the length of the state file in characters.

Procs == {"A", "B"}

RaceFile == get_file_path(KeyWT)

\* the number of characters json.dumps(..., indent=2) writes for one entry of
\* hunks: the key, the label items, approved_via and count vary; reasoning is
\* null in every state of this specification
EntryFrame == 101
HunkTextLen(k, h) ==
    LET SumLabels[i \in 0..Len(h.label.v)] ==
            IF i = 0 THEN 0 ELSE SumLabels[i - 1] + Len(h.label.v[i]) + 12
    IN  EntryFrame + Len(k) + SumLabels[Len(h.label.v)]
          + (IF h.approved_via = JNull THEN 4 ELSE 8)
          + (IF h.count = JNull THEN 4 ELSE 1)

\* the length of the text of a state document whose comparison, trust list,
\* notes and timestamps have the lengths they have in every state here
DocFrame == 270
RECURSIVE SumEntries(_, _)
SumEntries(hunks, keys) ==
    IF keys = {} THEN 0
    ELSE LET k == CHOOSE x \in keys : TRUE
         IN  HunkTextLen(k, hunks[k]) + SumEntries(hunks, keys \ {k})

TextLen(doc) == DocFrame + SumEntries(doc.hunks, DOMAIN doc.hunks)

RaceOps ==
    {[op |-> "approve_hunk", hunk_key |-> HK1],
     [op |-> "approve_hunk", hunk_key |-> HK2],
     [op |-> "unapprove_hunk", hunk_key |-> HK1]}

\* the operation m run by a new process on the state directory d: load,
\* change the loaded state, save
RunOp(m, d, t) ==
    LET w == [cache |-> EmptyCache, disk |-> d]
    IN  IF m.op = "approve_hunk"
        THEN approve_hunk(w, t, KeyWT, m.hunk_key, 1)
        ELSE unapprove_hunk(w, t, KeyWT, m.hunk_key)

Idle == [pc |-> "idle", doc |-> Absent]

\* the state directory after `start m` and approve_hunk of HK1
ApprovedOne ==
    approve_hunk([cache |-> EmptyCache, disk |-> Started], 0, KeyWT, HK1, 1).disk

LastRace(op, p, writer, doc) == [op |-> op, proc |-> p, writer |-> writer, doc |-> doc]

InitRace ==
    /\ files = <<>>
    /\ config = NoConfig
    /\ disk \in {Started, ApprovedOne}
    /\ cache = EmptyCache
    /\ current = Some(KeyWT)
    /\ now = 1
    /\ held = [p \in Procs |-> Idle]
    /\ fin = TextLen(disk[RaceFile])
    /\ last = LastRace("init", "", "", disk[RaceFile])
    /\ pin = <<>> /\ tin = <<>> /\ pout = Nil /\ fout = Nil

RaceFrame == UNCHANGED <<files, config, cache, current, pin, tin, pout, fout>>

\* load and the change in memory; a process that has nothing to save is done
ProcLoad ==
    \E p \in Procs, m \in RaceOps :
        /\ held[p].pc = "idle"
        /\ LET d == RunOp(m, disk, now).disk
           IN  held' = [held EXCEPT ![p] =
                          [pc  |-> IF d # disk THEN "loaded" ELSE "done",
                           doc |-> d[RaceFile]]]
        /\ now' = now + 1
        /\ last' = [last EXCEPT !.op = "load", !.proc = p]
        /\ UNCHANGED <<disk, fin>>
        /\ RaceFrame

\* save, first half: updated_at is set and the file is opened for writing
ProcOpen ==
    \E p \in Procs :
        /\ held[p].pc = "loaded"
        /\ held' = [held EXCEPT ![p].pc = "opened", ![p].doc.updated_at = now]
        /\ disk' = [disk EXCEPT ![RaceFile] = NotJson]
        /\ fin' = 0
        /\ now' = now + 1
        /\ last' = [last EXCEPT !.op = "open", !.proc = p]
        /\ RaceFrame

\* save, second half: the text is written from the start of the file; text
\* another process wrote since the open stays behind it when it is longer
ProcWrite ==
    \E p \in Procs :
        /\ held[p].pc = "opened"
        /\ held' = [held EXCEPT ![p].pc = "done"]
        /\ IF fin > TextLen(held[p].doc)
           THEN disk' = [disk EXCEPT ![RaceFile] = NotJson] /\ fin' = fin
           ELSE disk' = [disk EXCEPT ![RaceFile] = held[p].doc]
                /\ fin' = TextLen(held[p].doc)
        /\ now' = now + 1
        /\ last' = LastRace("write", p, p, held[p].doc)
        /\ RaceFrame

\* the process is killed before its save
ProcKill ==
    \E p \in Procs :
        /\ held[p].pc = "loaded"
        /\ held' = [held EXCEPT ![p].pc = "killed"]
        /\ now' = now + 1
        /\ last' = [last EXCEPT !.op = "kill", !.proc = p]
        /\ UNCHANGED <<disk, fin>>
        /\ RaceFrame

\* the process is killed inside save, between the open and the write
ProcKillInSave ==
    \E p \in Procs :
        /\ held[p].pc = "opened"
        /\ held' = [held EXCEPT ![p].pc = "killed in save"]
        /\ now' = now + 1
        /\ last' = [last EXCEPT !.op = "kill in save", !.proc = p]
        /\ UNCHANGED <<disk, fin>>
        /\ RaceFrame

NextRace == ProcLoad \/ ProcOpen \/ ProcWrite \/ ProcKill \/ ProcKillInSave

SpecRace == InitRace /\ [][NextRace]_vars

Finished == \A p \in Procs : held[p].pc \in {"done", "killed"}

\* C28: when both invocations have ended, each by finishing or by being
\* killed before its save, the state file holds exactly the state saved by
\* the last writer (what another invocation saved after the last writer's
\* load is lost), and the last saved state when no invocation wrote.
C28_LastWriterWins ==
    Finished => disk[RaceFile] = last.doc

----------------------------------------------------------------------------
\* SpecStatus: compute_review_status (review.py) applied to bounded lists of
\* changed files, review states and trust lists

Missing == [missing |-> TRUE]

\* what a state may hold for a hunk key, or Missing for no entry
StatusHunkStates ==
    {Missing,
     HunkState,
     [HunkState EXCEPT !.label = <<L_ia>>, !.reasoning = Some("ws")],
     [HunkState EXCEPT !.label = <<L_ia>>, !.reasoning = Some("ws"),
                       !.approved_via = Some("review"), !.count = Some(1)],
     [HunkState EXCEPT !.approved_via = Some("review"), !.count = Some(1)],
     [HunkState EXCEPT !.label = <<L_ia, L_fw>>, !.reasoning = Some("fmt")],
     [HunkState EXCEPT !.label = <<L_ia>>],
     [HunkState EXCEPT !.reasoning = Some("")]}

StatusKeys == {HK1, HK2, get_hunk_key(P_b, H_a)}

StatusStates ==
    {[EmptyState(KeyWT, 0) EXCEPT
        !.hunks = [k \in {x \in StatusKeys : h[x] # Missing} |-> h[k]],
        !.trust_label = tl] :
     h \in [StatusKeys -> StatusHunkStates], tl \in {<<>>, <<G_iStar>>}}

\* effective_trust: None, or a list
StatusTrustLists == {Nil, Some(<<>>), Some(<<G_iStar, G_fStar>>)}

InitStatus ==
    /\ files = <<>>
    /\ config = NoConfig
    /\ disk = NoDisk
    /\ cache = EmptyCache
    /\ current = Nil
    /\ now = 1
    /\ last = [op |-> "init"]
    /\ pin = <<>> /\ tin = <<>> /\ pout = Nil
    /\ held = Nil
    /\ fin \in [files : {DiffPlain, DiffTwin}, state : StatusStates,
                effective_trust : StatusTrustLists]
    /\ fout = Nil

\* effective_trust, or list(state.trust_label) when it is None
EffectiveTrust(a) ==
    IF a.effective_trust = Nil THEN a.state.trust_label ELSE a.effective_trust[1]

ComputeStatus ==
    /\ fout = Nil
    /\ fout' = Some(compute_review_status(fin.files, fin.state, KeyWT, EffectiveTrust(fin)))
    /\ last' = [op |-> "compute_review_status"]
    /\ UNCHANGED <<files, config, disk, cache, current, now, pin, tin, pout, held, fin>>

NextStatus == ComputeStatus

SpecStatus == InitStatus /\ [][NextStatus]_vars

\* the positions of the diff's hunks whose state entry satisfies P
HunksWhere(P(_)) ==
    {i \in 1..Len(AllHunks(fin.files)) :
        LET o == HunkStateOf(fin.state, AllHunks(fin.files)[i])
        IN  o # Nil /\ P(o[1])}

\* C29: compute_review_status counts each hunk of the diff exactly once:
\* total_hunks is the number of hunks and is reviewed_total + trusted_total
\* + unreviewed_total + unlabeled_count, approved_hunks is reviewed_total +
\* trusted_total and lies between 0 and total_hunks, reviewed_total is the
\* number of review-approved hunks (trusted or not) and trusted_total the
\* number of trusted hunks that are not review-approved.
C29_EachHunkCountedOnce ==
    fout # Nil =>
        LET s == fout[1]
            reviewed_total   == BucketTotal(s.reviewed_by_label)
            trusted_total    == BucketTotal(s.trusted_by_label)
            unreviewed_total == BucketTotal(s.unreviewed_by_label)
            IsReviewed(h)    == h.approved_via = Some("review")
            IsTrusted(h)     == is_hunk_trusted(h, EffectiveTrust(fin))
        IN  /\ s.total_hunks = Len(AllHunks(fin.files))
            /\ s.total_hunks = reviewed_total + trusted_total + unreviewed_total
                                 + s.unlabeled_count
            /\ s.approved_hunks = reviewed_total + trusted_total
            /\ 0 <= s.approved_hunks /\ s.approved_hunks <= s.total_hunks
            /\ reviewed_total = Cardinality(HunksWhere(IsReviewed))
            /\ trusted_total
                 = Cardinality(HunksWhere(LAMBDA h : IsTrusted(h) /\ ~IsReviewed(h)))

\* a hunk that is review-approved and trusted, next to one that is only
\* trusted, one that is labelled and one without an entry
C29_Witness ==
    /\ fout # Nil
    /\ fin.files = DiffPlain
    /\ HunksWhere(LAMBDA h : h.approved_via = Some("review")
                             /\ is_hunk_trusted(h, EffectiveTrust(fin))) # {}
    /\ BucketTotal(fout[1].reviewed_by_label) = 1
    /\ BucketTotal(fout[1].trusted_by_label) = 1
    /\ BucketTotal(fout[1].unreviewed_by_label) = 1
    /\ fout[1].unlabeled_count = 1

====
